---- MODULE Spec2Model ----
(***************************************************************************)
(* Model of the agent orchestration runtime: the dispatcher               *)
(* (orchestrator.rs, Orchestrator::dispatch) and the signed plugin loader *)
(* (plugin.rs, Plugin::load / Plugin::quarantine_plugin).                 *)
(***************************************************************************)
EXTENDS Integers, Sequences, FiniteSets, TLC

(* ------------------------------ bounds -------------------------------- *)
\* number of tasks callers may submit in one behaviour
NumTasks == 2
\* largest configured value of settings.orchestrator.max_concurrent_tasks
MaxPermits == 2

\* number of distinct file contents that may be written to a plugin path
NumContents == 2
\* last value of the unix clock
MaxTime == 1
\* number of Plugin::load calls in one behaviour
MaxLoads == 3
\* number of register_agent / remove_agent calls in one behaviour
MaxRegistryCalls == 4
\* largest configured value of settings.security.max_login_attempts
MaxLoginAttempts == 2
\* last value of the clock the credential store reads
MaxClock == 3
\* number of tokens issued in one behaviour
MaxTokens == 2
\* largest configured value of Memory.max_fragments
MaxFragments == 2
\* number of add_memory calls in one behaviour
MaxAdds == 2
\* number of search_memory calls in one behaviour
MaxSearches == 1
\* largest top_k handed to search_memory
MaxTopK == 1
\* number of bridge requests in one behaviour
MaxRequests == 2
\* largest bound of the bridge's request channel (the bound is 100 in
\* init_julia)
QueueCapacity == 2

Tasks == 1..NumTasks

(* -------------------------- dispatcher data --------------------------- *)
\* agent names a caller may put in a task
Names == {"echo", "missing"}
\* names register_agent and remove_agent are called with
RegisteredNames == {"echo"}
\* JSON inputs of a task
Inputs == {"hello"}
\* strings a handler may return, and the errors it may fail with
Outputs == {"out_a", "out_b"}
HandlerErrors == {"boom"}

\* capacity of a reply channel: every caller builds it with mpsc::channel(1)
REPLY_CAPACITY == 1

\* Arc<dyn Agent> values: a built-in agent, or one whose code lives in the
\* library a Plugin::load call mapped (lib = number of that call)
NoAgent == [kind |-> "none", lib |-> 0]
BuiltinAgent == [kind |-> "builtin", lib |-> 0]
PluginAgent(l) == [kind |-> "plugin", lib |-> l]
\* an agent AgentFactory::create_agent built for a register request
FactoryAgent == [kind |-> "factory", lib |-> 0]
AgentRefs == {BuiltinAgent, FactoryAgent}

\* Result<String> of Agent::handle
HandlerResults ==
    [ok : {TRUE}, s : Outputs] \cup [ok : {FALSE}, s : HandlerErrors]

NoHandlerResult == [ok |-> FALSE, s |-> "pending"]

\* serde_json::Value::String(output): the output wrapped as a JSON string
ValueString(output) == [ok |-> TRUE, tag |-> "String", arg |-> output]

\* the errors dispatch builds with anyhow!
QueueFullError == [ok |-> FALSE, tag |-> "QueueFull", arg |-> ""]
\* variant: the error does not carry the name
UnknownAgentError_NoName(n) == [ok |-> FALSE, tag |-> "UnknownAgent", arg |-> ""]
UnknownAgentError(n) == [ok |-> FALSE, tag |-> "UnknownAgent", arg |-> n]
TimeoutError == [ok |-> FALSE, tag |-> "Timeout", arg |-> ""]
HandlerFailedError(e) == [ok |-> FALSE, tag |-> "HandlerFailed", arg |-> e]

NoResponse == [ok |-> FALSE, tag |-> "None", arg |-> ""]

\* variant: the handler's error is swallowed into an Ok value
ResponseOf_Swallow(r) == ValueString(r.s)

\* the match on the result of tokio::time::timeout(.., agent.handle(..))
ResponseOf(r) ==
    IF r.ok THEN ValueString(r.s) ELSE HandlerFailedError(r.s)

VARIABLES
    max_concurrent_tasks, \* Orchestrator.max_concurrent_tasks
    permits,              \* available permits of Orchestrator.task_semaphore
    agents,               \* Orchestrator.agents: name -> agent reference
    agents_lock,          \* holder of the agents mutex (0 = free)
    pc,                   \* position of each dispatch call
    task_name,            \* task.0
    task_input,           \* task.1
    permit,               \* whether the call holds a SemaphorePermit
    agent,                \* the agent reference the call cloned from the map
    handler_result,       \* what agent.handle returned to the call
    response,             \* the local `response` (or the error being sent)
    chan,                 \* buffer of the task's reply channel
    rx_open,              \* whether the caller still holds the receiver
    received,             \* what the caller took from the receiver
    sends,                \* number of resp_tx.send calls made for the task
    send_result,          \* what resp_tx.send returned (discarded by let _)
    ret,                  \* value returned by dispatch
    ever_registered       \* names that have been in the registry so far

dvars == <<max_concurrent_tasks, permits, agents, agents_lock, pc, task_name,
           task_input, permit, agent, handler_result, response, chan,
           rx_open, received, sends, send_result, ret, ever_registered>>


VARIABLES
    require_signatures,   \* PluginSecurityConfig.require_signatures
    allowed_hashes,       \* PluginSecurityConfig.allowed_hashes
    max_plugin_size,      \* PluginSecurityConfig.max_plugin_size
    fs,                   \* the plugin directory: path -> content or NoFile
    quarantine,           \* files under <dir>/quarantine: [ts, name, content]
    now,                  \* SystemTime::now() in seconds
    mapped,               \* contents Library::new has mapped into the process
    lpc,                  \* position of the current Plugin::load call
    lpath,                \* lib_path
    file_content,         \* the bytes fs::read returned
    hash,                 \* the digest computed from file_content
    lresult,              \* what load returned
    l_mapped,             \* whether this call reached a successful dlopen
    l_rerun,              \* the call started on a path emptied by quarantine
                          \* and the path has not been written since
    quarantined_from,     \* paths emptied by quarantine and not written since
    loads                 \* number of load calls so far

pvars == <<require_signatures, allowed_hashes, max_plugin_size, fs,
           quarantine, now, mapped, lpc, lpath, file_content, hash, lresult,
           l_mapped, l_rerun, quarantined_from, loads>>

VARIABLES
    watch_rx,             \* rx of hot_reload::watch: Modify events, as paths
    notified,             \* number of events the OS watcher has delivered
    bus,                  \* the PluginEvent channel (bus_tx -> bus_rx)
    rpc,                  \* position of the hot-reload loop
    lib,                  \* the local `lib`: load call whose Library the
                          \* Plugin keeps alive (0 = no Plugin in scope)
    new_agent,            \* the local `agent` returned by lib.instantiate()
    new_name,             \* the local `name` = agent.name()
    violations,           \* SecurityViolation events sent on the bus so far
    reload_log            \* the last error!/warn!/info! of the reload loop

rvars == <<watch_rx, notified, bus, rpc, lib, new_agent, new_name,
           violations, reload_log>>

VARIABLES
    reg_call,             \* the last register_agent / remove_agent call
    reg_calls             \* number of such calls so far

gvars == <<reg_call, reg_calls>>

VARIABLES
    max_login_attempts,   \* AuthManager.max_login_attempts
    lockout_duration,     \* AuthManager.lockout_duration
    clock,                \* Instant::now() / Utc::now(), in whole seconds
    login_attempts,       \* AuthManager.login_attempts: user -> (count, until)
    apc,                  \* position of each authenticate call
    a_user,               \* its username
    a_pw,                 \* its password
    a_ret,                \* what it returned
    a_until,              \* end of the lockout window the call was made in
    consec,               \* consecutive failed authentications per user
    window_until          \* end of the lockout window last opened per user

avars == <<max_login_attempts, lockout_duration, clock, login_attempts, apc,
           a_user, a_pw, a_ret, a_until, consec, window_until>>

VARIABLES
    jwt_expiry,           \* AuthManager.jwt_expiry_hours, in seconds
    leeway,               \* Validation.leeway of Validation::new(HS256)
    issued,               \* tokens generate_token has produced
    token_blacklist,      \* AuthManager.token_blacklist (exp is in the token)
    revoked,              \* tokens for which revoke_token returned Ok
    tok_call              \* the last validate_token / revoke_token call

tvars == <<jwt_expiry, leeway, issued, token_blacklist, revoked, tok_call>>

VARIABLES
    max_fragments,        \* Memory.max_fragments
    fragments,            \* Memory.fragments (oldest first)
    cache,                \* the embedding cache: key -> Option<Vec<f32>>
    clear_pc,             \* position of the clear call, if one is running
    mpc,                  \* position of each add_memory call
    m_content,            \* its content
    m_vec,                \* its embedding
    m_ret,                \* how it ended
    m_prev,               \* the call for the same content that had returned
                          \* last when it started
    m_invoked,            \* whether it has invoked the embedding agent
    m_cleared,            \* whether the cache was cleared while it ran
    last_add,             \* per content, the add_memory call that returned
                          \* last since the cache was cleared
    embed_calls,          \* per content, invocations of the embedding agent
                          \* (0, 1, or 2 for more than one)
    returned,             \* per content, the vector it answered first
    inserted,             \* fragments pushed since the last clear, in order
    adds,                 \* number of add_memory calls so far
    cleared               \* whether clear has been called

mvars == <<max_fragments, fragments, cache, clear_pc, mpc, m_content, m_vec,
           m_ret, m_prev, m_invoked, m_cleared, last_add, embed_calls, returned,
           inserted, adds, cleared>>

VARIABLES
    similarity_threshold, \* Memory.similarity_threshold
    spc,                  \* position of the search_memory call
    s_query,              \* its query
    s_k,                  \* its top_k
    s_qemb,               \* the query embedding
    s_idx,                \* the rerank candidates, as fragment indices
    s_cands,              \* the rerank candidates, as contents
    s_rerank,             \* how the rerank agent's call ended
    s_ret,                \* how it ended
    s_results,            \* the list it returned
    searches              \* number of search_memory calls so far

svars == <<similarity_threshold, spc, s_query, s_k, s_qemb, s_idx, s_cands,
           s_rerank, s_ret, s_results, searches>>

VARIABLES
    j_cap,                \* the bound of the request channel
    jq,                   \* the request channel of the bridge, oldest first
    j_wpc,                \* position of the worker thread
    j_task,               \* the task the worker thread has in hand
    j_outcome,            \* how julia.scope ended for the last task
    j_log,                \* the tasks handed to the interpreter, in order
    j_enqueued,           \* requests that have been put into the channel
    j_owner,              \* per request, the caller that made it
    reply,                \* per request, its reply channel
    submitted,            \* number of handle calls so far
    jpc,                  \* position of each handle call
    j_id,                 \* its request
    j_fn,                 \* its function name
    j_ret,                \* how it ended
    j_full,               \* whether the channel has been full ever since
                          \* its send started
    j_down                \* whether the worker thread died before the
                          \* request was made or while it was pending

jvars == <<j_cap, jq, j_wpc, j_task, j_outcome, j_log, j_enqueued, j_owner,
           reply, submitted, jpc, j_id, j_fn, j_ret, j_full, j_down>>

VARIABLES
    script_allowlist_hashes, \* settings.security.script_allowlist_hashes
    scripts,              \* the model files on disk: path -> content or NoFile
    ipc,                  \* position of the bridge's worker thread in
                          \* init_julia, before its main loop
    i_idx,                \* index of model_path in the for loop
    i_status,             \* per model file, what the loop did with it
    i_included,           \* per model file, the content `include` evaluated
    i_writes              \* number of writes to the model files so far

ivars == <<script_allowlist_hashes, scripts, ipc, i_idx, i_status, i_included,
           i_writes>>

VARIABLES
    users,                \* the users table: username -> row or NoRow
    user_cache,           \* AuthManager.cache
    a_rec,                \* per authenticate call, the local `user`
    a_late,               \* per authenticate call, whether disable_user had
                          \* returned Ok for its user before it was made
    upc,                  \* position of each user-management call
    u_op,                 \* the function called
    u_name,               \* its username
    u_rec,                \* its local `user`
    u_ret,                \* what it returned
    u_late,               \* whether an admin row existed when it was made
    disabled,             \* users for whom disable_user has returned Ok
    admin_inits           \* initialize_admin calls that returned Ok (0, 1,
                          \* or 2 for more than one)

uvars == <<users, user_cache, a_rec, a_late, upc, u_op, u_name, u_rec, u_ret,
           u_late, disabled, admin_inits>>

VARIABLES
    settings,             \* the Settings built from the configuration sources
    boot,                 \* position of main
    boot_err              \* the error main returned

cvars == <<settings, boot, boot_err>>

VARIABLES
    q_rx,                 \* rx of hot_reload::watch: the Modify events for
                          \* files in <dir>/quarantine, as file names
    q_bus,                \* the PluginEvent channel: the events for such
                          \* files
    q_notified,           \* quarantined files the OS watcher has reported
    q_deeper,             \* files under <dir>/quarantine/quarantine
    q_mapped              \* contents Library::new has mapped from a file in
                          \* <dir>/quarantine

qvars == <<q_rx, q_bus, q_notified, q_deeper, q_mapped>>

\* the state of start-up, of user management and of the watched quarantine
yvars == <<ivars, uvars, cvars, qvars>>

\* the state of the subsystems above, and that state without the
\* credential store
zvars == <<dvars, pvars, rvars, gvars, avars, tvars, mvars, svars, jvars>>
zvars_but_a == <<dvars, pvars, rvars, gvars, tvars, mvars, svars, jvars>>

\* the state outside the dispatcher and the loader
xvars == <<rvars, gvars, avars, tvars, mvars, svars, jvars, yvars>>

vars == <<dvars, pvars, xvars>>

DInit ==
    /\ max_concurrent_tasks \in 0..MaxPermits
    /\ permits = max_concurrent_tasks
    /\ agents = [n \in Names |-> IF n = "echo" THEN BuiltinAgent ELSE NoAgent]
    /\ agents_lock = 0
    /\ pc = [t \in Tasks |-> "idle"]
    /\ task_name = [t \in Tasks |-> "echo"]
    /\ task_input = [t \in Tasks |-> "hello"]
    /\ permit = [t \in Tasks |-> FALSE]
    /\ agent = [t \in Tasks |-> NoAgent]
    /\ handler_result = [t \in Tasks |-> NoHandlerResult]
    /\ response = [t \in Tasks |-> NoResponse]
    /\ chan = [t \in Tasks |-> <<>>]
    /\ rx_open = [t \in Tasks |-> TRUE]
    /\ received = [t \in Tasks |-> <<>>]
    /\ sends = [t \in Tasks |-> 0]
    /\ send_result = [t \in Tasks |-> "none"]
    /\ ret = [t \in Tasks |-> "none"]
    /\ ever_registered = {n \in Names : agents[n] # NoAgent}

\* variant: admission that never refuses
TryAcquireOk_Always(available) == TRUE

\* Semaphore::try_acquire: a permit when one is available, else an error
TryAcquireOk(available) == available > 0

\* mpsc::Sender::send(..).await completes when the buffer has room or the
\* receiver is gone; it returns Err (value dropped) when the receiver is gone
SendReady(t) == Len(chan[t]) < REPLY_CAPACITY \/ ~rx_open[t]

ChanAfterSend(t, msg) ==
    IF rx_open[t] THEN Append(chan[t], msg) ELSE chan[t]

\* Ok(()) when the value was queued, Err(SendError) when the receiver is gone
SendResult(t) == IF rx_open[t] THEN "Ok" ELSE "Err"

\* variant: the send error is propagated with `?`
DispatchReturn_Propagate(sr) == IF sr = "Err" THEN "Err" ELSE "Ok"

\* `let _ = resp_tx.send(..).await; Ok(())`: the send result is discarded
DispatchReturn(sr) == "Ok"

\* dispatch is called: destructure the task, then try_acquire
\* (tasks are numbered in the order they are submitted)
Dispatch(t, n, i) ==
    /\ pc[t] = "idle"
    /\ \A u \in Tasks : u < t => pc[u] # "idle"
    /\ task_name' = [task_name EXCEPT ![t] = n]
    /\ task_input' = [task_input EXCEPT ![t] = i]
    /\ IF TryAcquireOk(permits)
       THEN /\ permits' = permits - 1
            /\ permit' = [permit EXCEPT ![t] = TRUE]
            /\ pc' = [pc EXCEPT ![t] = "lookup"]
            /\ response' = response
       ELSE /\ response' = [response EXCEPT ![t] = QueueFullError]
            /\ pc' = [pc EXCEPT ![t] = "send_full"]
            /\ UNCHANGED <<permits, permit>>
    /\ UNCHANGED <<max_concurrent_tasks, agents, agents_lock, agent,
                   handler_result, chan, rx_open, received, sends, send_result, ret,
                   ever_registered>>
    /\ UNCHANGED <<pvars, xvars>>

\* Err(_) arm of try_acquire: send the error and return Ok(())
SendQueueFull(t) ==
    /\ pc[t] = "send_full"
    /\ SendReady(t)
    /\ chan' = [chan EXCEPT ![t] = ChanAfterSend(t, response[t])]
    /\ sends' = [sends EXCEPT ![t] = @ + 1]
    /\ send_result' = [send_result EXCEPT ![t] = SendResult(t)]
    /\ ret' = [ret EXCEPT ![t] = DispatchReturn(SendResult(t))]
    /\ ever_registered' = ever_registered
    /\ pc' = [pc EXCEPT ![t] = "done"]
    /\ UNCHANGED <<max_concurrent_tasks, permits, agents, agents_lock,
                   task_name, task_input, permit, agent, handler_result,
                   response, rx_open, received>>
    /\ UNCHANGED <<pvars, xvars>>

\* self.agents.lock().await; map.get(&name)
Lookup(t) ==
    /\ pc[t] = "lookup"
    /\ agents_lock = 0
    /\ IF agents[task_name[t]] # NoAgent
       THEN \* Some(agent) => agent.clone(); the guard is dropped at the end
            \* of the block and agent.handle is invoked
            /\ agent' = [agent EXCEPT ![t] = agents[task_name[t]]]
            /\ pc' = [pc EXCEPT ![t] = "handle"]
            /\ UNCHANGED <<agents_lock, response>>
       ELSE \* None: the error is sent while the guard is still alive
            /\ agents_lock' = t
            /\ response' = [response EXCEPT
                              ![t] = UnknownAgentError(task_name[t])]
            /\ pc' = [pc EXCEPT ![t] = "send_unknown"]
            /\ agent' = agent
    /\ UNCHANGED <<max_concurrent_tasks, permits, agents, task_name,
                   task_input, permit, handler_result, chan, rx_open,
                   received, sends, send_result, ret,
                   ever_registered>>
    /\ UNCHANGED <<pvars, xvars>>

\* variant: the None arm returns without sending
SendUnknown_NoSend(t) ==
    /\ pc[t] = "send_unknown"
    /\ agents_lock' = 0
    /\ permit' = [permit EXCEPT ![t] = FALSE]
    /\ permits' = permits + 1
    /\ ret' = [ret EXCEPT ![t] = "Ok"]
    /\ pc' = [pc EXCEPT ![t] = "done"]
    /\ UNCHANGED <<max_concurrent_tasks, agents, task_name, task_input,
                   agent, handler_result, response, rx_open, received, chan,
                   sends, send_result, ever_registered>>
    /\ UNCHANGED <<pvars, xvars>>

\* None arm: resp_tx.send(Err(error)).await; return Ok(()) drops the guard
\* and the permit
SendUnknown(t) ==
    /\ pc[t] = "send_unknown"
    /\ SendReady(t)
    /\ chan' = [chan EXCEPT ![t] = ChanAfterSend(t, response[t])]
    /\ sends' = [sends EXCEPT ![t] = @ + 1]
    /\ send_result' = [send_result EXCEPT ![t] = SendResult(t)]
    /\ agents_lock' = 0
    /\ permit' = [permit EXCEPT ![t] = FALSE]
    /\ permits' = permits + 1
    /\ ret' = [ret EXCEPT ![t] = DispatchReturn(SendResult(t))]
    /\ ever_registered' = ever_registered
    /\ pc' = [pc EXCEPT ![t] = "done"]
    /\ UNCHANGED <<max_concurrent_tasks, agents, task_name, task_input,
                   agent, handler_result, response, rx_open, received>>
    /\ UNCHANGED <<pvars, xvars>>

\* the handler future completes before the deadline: Ok(Ok(output)) or
\* Ok(Err(e)); the response is built and the permit dropped
HandlerReturns(t, r) ==
    /\ pc[t] = "handle"
    /\ handler_result' = [handler_result EXCEPT ![t] = r]
    /\ response' = [response EXCEPT ![t] = ResponseOf(r)]
    /\ permit' = [permit EXCEPT ![t] = FALSE]
    /\ permits' = permits + 1
    /\ pc' = [pc EXCEPT ![t] = "send_response"]
    /\ UNCHANGED <<max_concurrent_tasks, agents, agents_lock, task_name,
                   task_input, agent, chan, rx_open, received, sends, send_result, ret,
                   ever_registered>>
    /\ UNCHANGED <<pvars, xvars>>

\* variant: the timeout arm keeps the permit (it is never dropped)
TimeoutFires_KeepsPermit(t) ==
    /\ pc[t] = "handle"
    /\ response' = [response EXCEPT ![t] = TimeoutError]
    /\ pc' = [pc EXCEPT ![t] = "send_response"]
    /\ UNCHANGED <<max_concurrent_tasks, permits, permit, agents, agents_lock,
                   task_name, task_input, agent, handler_result, chan,
                   rx_open, received, sends, send_result, ret,
                   ever_registered>>
    /\ UNCHANGED <<pvars, xvars>>

\* the 30 second deadline fires first: Err(_) arm, handler future dropped
TimeoutFires(t) ==
    /\ pc[t] = "handle"
    /\ response' = [response EXCEPT ![t] = TimeoutError]
    /\ permit' = [permit EXCEPT ![t] = FALSE]
    /\ permits' = permits + 1
    /\ pc' = [pc EXCEPT ![t] = "send_response"]
    /\ UNCHANGED <<max_concurrent_tasks, agents, agents_lock, task_name,
                   task_input, agent, handler_result, chan, rx_open,
                   received, sends, send_result, ret,
                   ever_registered>>
    /\ UNCHANGED <<pvars, xvars>>

\* let _ = resp_tx.send(response).await; Ok(())
SendResponse(t) ==
    /\ pc[t] = "send_response"
    /\ SendReady(t)
    /\ chan' = [chan EXCEPT ![t] = ChanAfterSend(t, response[t])]
    /\ sends' = [sends EXCEPT ![t] = @ + 1]
    /\ send_result' = [send_result EXCEPT ![t] = SendResult(t)]
    /\ ret' = [ret EXCEPT ![t] = DispatchReturn(SendResult(t))]
    /\ ever_registered' = ever_registered
    /\ pc' = [pc EXCEPT ![t] = "done"]
    /\ UNCHANGED <<max_concurrent_tasks, permits, agents, agents_lock,
                   task_name, task_input, permit, agent, handler_result,
                   response, rx_open, received>>
    /\ UNCHANGED <<pvars, xvars>>

\* the caller takes the response: rx.recv().await
Recv(t) ==
    /\ rx_open[t]
    /\ chan[t] # <<>>
    /\ received' = [received EXCEPT ![t] = Append(@, Head(chan[t]))]
    /\ chan' = [chan EXCEPT ![t] = Tail(@)]
    /\ UNCHANGED <<max_concurrent_tasks, permits, agents, agents_lock, pc,
                   task_name, task_input, permit, agent, handler_result,
                   response, rx_open, sends, send_result, ret,
                   ever_registered>>
    /\ UNCHANGED <<pvars, xvars>>

\* the caller drops the receiver without having taken the response;
\* buffered values are dropped with it
DropRx(t) ==
    /\ pc[t] # "idle"
    /\ rx_open[t]
    /\ received[t] = <<>>
    /\ rx_open' = [rx_open EXCEPT ![t] = FALSE]
    /\ chan' = [chan EXCEPT ![t] = <<>>]
    /\ UNCHANGED <<max_concurrent_tasks, permits, agents, agents_lock, pc,
                   task_name, task_input, permit, agent, handler_result,
                   response, received, sends, send_result, ret,
                   ever_registered>>
    /\ UNCHANGED <<pvars, xvars>>

\* register_agent: self.agents.lock().await.insert(name, agent); an entry
\* already under the name is replaced
RegisterInsert(n, a) ==
    /\ agents_lock = 0
    /\ agents' = [agents EXCEPT ![n] = a]
    /\ ever_registered' = ever_registered \cup {n}
    /\ UNCHANGED <<max_concurrent_tasks, permits, agents_lock, pc, task_name,
                   task_input, permit, agent, handler_result, response, chan,
                   rx_open, received, sends, send_result, ret>>

\* register_agent ends with Ok(()) on every path
RegisterReturn(n) == "Ok"

\* remove_agent: self.agents.lock().await.remove(name); nothing happens
\* when the name is absent
RemoveEntry(n) ==
    /\ agents_lock = 0
    /\ agents' = [agents EXCEPT ![n] = NoAgent]
    /\ UNCHANGED <<max_concurrent_tasks, permits, agents_lock, pc, task_name,
                   task_input, permit, agent, handler_result, response, chan,
                   rx_open, received, sends, send_result, ret, ever_registered>>

\* remove_agent ends with Ok(()) on every path
RemoveReturn(n) == "Ok"

\* the server's remove_agent handler: Ok -> 204, Err -> 404
RemoveStatus(r) == IF r = "Ok" THEN "NO_CONTENT" ELSE "NOT_FOUND"

\* the server's register_agent handler: Ok -> 201, Err -> 500
RegisterStatus(r) == IF r = "Ok" THEN "CREATED" ELSE "INTERNAL_SERVER_ERROR"

\* register_agent while tasks are being dispatched (result not looked at)
RegisterAgent(n) ==
    /\ RegisterInsert(n, BuiltinAgent)
    /\ UNCHANGED <<pvars, xvars>>

\* remove_agent while tasks are being dispatched (result not looked at)
RemoveAgent(n) ==
    /\ RemoveEntry(n)
    /\ UNCHANGED <<pvars, xvars>>

\* POST /agents: the agent is built by AgentFactory and registered
RegisterCall(n, a) ==
    /\ reg_calls < MaxRegistryCalls
    /\ RegisterInsert(n, a)
    /\ reg_calls' = reg_calls + 1
    /\ reg_call' = [op |-> "register", name |-> n, before |-> agents,
                    ret |-> RegisterReturn(n),
                    status |-> RegisterStatus(RegisterReturn(n))]
    /\ UNCHANGED <<pvars, rvars, avars, tvars, mvars, svars, jvars, yvars>>

\* DELETE /agents/:name
RemoveCall(n) ==
    /\ reg_calls < MaxRegistryCalls
    /\ RemoveEntry(n)
    /\ reg_calls' = reg_calls + 1
    /\ reg_call' = [op |-> "remove", name |-> n, before |-> agents,
                    ret |-> RemoveReturn(n),
                    status |-> RemoveStatus(RemoveReturn(n))]
    /\ UNCHANGED <<pvars, rvars, avars, tvars, mvars, svars, jvars, yvars>>

GInit ==
    /\ reg_calls = 0
    /\ reg_call = [op |-> "none", name |-> "echo",
                   before |-> [n \in Names |-> NoAgent],
                   ret |-> "none", status |-> "none"]

GNext ==
    \/ \E n \in Names, a \in AgentRefs : RegisterCall(n, a)
    \/ \E n \in Names : RemoveCall(n)

DNext ==
    \/ \E t \in Tasks, n \in Names, i \in Inputs : Dispatch(t, n, i)
    \/ \E t \in Tasks : SendQueueFull(t)
    \/ \E t \in Tasks : Lookup(t)
    \/ \E t \in Tasks : SendUnknown(t)
    \/ \E t \in Tasks, r \in HandlerResults : HandlerReturns(t, r)
    \/ \E t \in Tasks : TimeoutFires(t)
    \/ \E t \in Tasks : SendResponse(t)
    \/ \E t \in Tasks : Recv(t)
    \/ \E t \in Tasks : DropRx(t)
    \/ \E n \in RegisteredNames : RegisterAgent(n)
    \/ \E n \in RegisteredNames : RemoveAgent(n)

(* --------------------------- plugin loader ---------------------------- *)
\* paths handed to Plugin::load
Paths == {"plug.so", "plug.txt"}
\* file contents; content c is c units long
Contents == 1..NumContents
NoFile == 0
NoHash == <<"sha256", NoFile>>

\* lib_path.extension() formatted as ".ext"
ExtensionOf(p) == IF p = "plug.so" THEN ".so" ELSE ".txt"

\* PluginSecurityConfig.allowed_extensions
allowed_extensions == {".so", ".dll", ".dylib"}

\* metadata.len()
FileLen(c) == c

\* format!("{:x}", Sha256(file_content)): one digest per content
Sha256(c) == <<"sha256", c>>

PInit ==
    /\ require_signatures \in BOOLEAN
    /\ allowed_hashes \in SUBSET {Sha256(c) : c \in Contents}
    /\ max_plugin_size \in {NumContents - 1, NumContents}
    /\ fs \in [Paths -> Contents]
    /\ quarantine = {}
    /\ now = 0
    /\ mapped = {}
    /\ lpc = "idle"
    /\ lpath = "plug.so"
    /\ file_content = NoFile
    /\ hash = NoHash
    /\ lresult = "none"
    /\ l_mapped = FALSE
    /\ l_rerun = FALSE
    /\ quarantined_from = {}
    /\ loads = 0

\* Plugin::load is entered: the extension check
LoadEnter(p) ==
    /\ lpc \in {"idle", "done"}
    /\ loads < MaxLoads
    /\ loads' = loads + 1
    /\ lpath' = p
    /\ file_content' = NoFile
    /\ hash' = NoHash
    /\ l_mapped' = FALSE
    /\ l_rerun' = (p \in quarantined_from)
    /\ IF ExtensionOf(p) \in allowed_extensions
       THEN lpc' = "metadata" /\ lresult' = "none"
       ELSE lpc' = "done" /\ lresult' = "InvalidExtension"
    /\ UNCHANGED <<require_signatures, allowed_hashes, max_plugin_size, fs,
                   quarantine, now, mapped, quarantined_from>>

\* Plugin::load called on its own (outside the hot-reload loop)
LoadStart(p) ==
    /\ LoadEnter(p)
    /\ UNCHANGED <<dvars, xvars>>

\* variant: the size check does not need the file to exist
MetadataOk_Skip(p) == TRUE

\* fs::metadata(lib_path) succeeds when the file exists
MetadataOk(p) == fs[p] # NoFile

\* fs::metadata and the size limit
LoadMetadata ==
    /\ lpc = "metadata"
    /\ IF ~MetadataOk(lpath)
       THEN lpc' = "done" /\ lresult' = "MetadataFailed"
       ELSE IF FileLen(fs[lpath]) > max_plugin_size
       THEN lpc' = "done" /\ lresult' = "FileTooLarge"
       ELSE lpc' = "read" /\ lresult' = lresult
    /\ UNCHANGED <<require_signatures, allowed_hashes, max_plugin_size, fs,
                   quarantine, now, mapped, lpath, file_content, hash,
                   l_mapped, l_rerun, quarantined_from, loads>>
    /\ UNCHANGED <<dvars, xvars>>

\* security_config.allowed_hashes.contains(&hash)
HashAllowed(h) == h \in allowed_hashes

\* variant: with signatures required, a digest that is not in the allowlist
\* sends the file to quarantine also when the allowlist is empty
LoadRead_QuarantineOnEmpty ==
    /\ lpc = "read"
    /\ IF fs[lpath] = NoFile
       THEN /\ lpc' = "done" /\ lresult' = "ReadFailed"
            /\ UNCHANGED <<file_content, hash>>
       ELSE /\ file_content' = fs[lpath]
            /\ hash' = Sha256(fs[lpath])
            /\ IF require_signatures /\ ~HashAllowed(Sha256(fs[lpath]))
               THEN lpc' = "quarantine" /\ lresult' = lresult
               ELSE lpc' = "map" /\ lresult' = lresult
    /\ UNCHANGED <<require_signatures, allowed_hashes, max_plugin_size, fs,
                   quarantine, now, mapped, lpath, l_mapped, l_rerun,
                   quarantined_from, loads>>
    /\ UNCHANGED <<dvars, xvars>>

\* fs::read, the digest, and the allowlist decision
LoadRead ==
    /\ lpc = "read"
    /\ IF fs[lpath] = NoFile
       THEN /\ lpc' = "done" /\ lresult' = "ReadFailed"
            /\ UNCHANGED <<file_content, hash>>
       ELSE /\ file_content' = fs[lpath]
            /\ hash' = Sha256(fs[lpath])
            /\ IF require_signatures /\ allowed_hashes = {}
               THEN lpc' = "done" /\ lresult' = "AllowlistEmpty"
               ELSE IF require_signatures /\ ~HashAllowed(Sha256(fs[lpath]))
               THEN lpc' = "quarantine" /\ lresult' = lresult
               ELSE lpc' = "map" /\ lresult' = lresult
    /\ UNCHANGED <<require_signatures, allowed_hashes, max_plugin_size, fs,
                   quarantine, now, mapped, lpath, l_mapped, l_rerun,
                   quarantined_from, loads>>
    /\ UNCHANGED <<dvars, xvars>>

\* quarantine_dir.join(format!("{}_{}", timestamp, filename))
QuarantineName(ts, p) == <<ts, p>>

\* variant: the file is copied into quarantine and left in place
FsAfterRename_Copy(p) == fs

\* the source side of fs::rename(lib_path, &quarantine_path)
FsAfterRename(p) == [fs EXCEPT ![p] = NoFile]

\* the target side of fs::rename: an existing target is replaced
QuarantineAfterRename(p) ==
    {q \in quarantine : q.name # QuarantineName(now, p)}
        \cup {[name |-> QuarantineName(now, p), content |-> fs[p]]}

\* Self::quarantine_plugin(lib_path)?; return Err(not in allowlist)
LoadQuarantine ==
    /\ lpc = "quarantine"
    /\ IF fs[lpath] = NoFile
       THEN /\ lresult' = "QuarantineFailed"
            /\ UNCHANGED <<fs, quarantine, quarantined_from>>
       ELSE /\ fs' = FsAfterRename(lpath)
            /\ quarantine' = QuarantineAfterRename(lpath)
            /\ quarantined_from' = quarantined_from \cup {lpath}
            /\ lresult' = "NotAllowlisted"
    /\ lpc' = "done"
    /\ UNCHANGED <<require_signatures, allowed_hashes, max_plugin_size, now,
                   mapped, lpath, file_content, hash, l_mapped, l_rerun,
                   loads>>
    /\ UNCHANGED <<dvars, xvars>>

\* Library::new(lib_path) opens the path again and maps what is there now;
\* then library.get(b"create_agent")
LoadMap(outcome) ==
    /\ lpc = "map"
    /\ lpc' = "done"
    /\ IF fs[lpath] = NoFile \/ outcome = "LoadFailed"
       THEN lresult' = "LoadFailed" /\ UNCHANGED <<mapped, l_mapped>>
       ELSE /\ mapped' = mapped \cup {fs[lpath]}
            /\ l_mapped' = TRUE
            /\ lresult' = outcome
    /\ UNCHANGED <<require_signatures, allowed_hashes, max_plugin_size, fs,
                   quarantine, now, lpath, file_content, hash, l_rerun,
                   quarantined_from, loads>>
    /\ UNCHANGED <<dvars, xvars>>

\* a file in the directory is created or replaced with new bytes
WriteBytes(p, c) ==
    /\ fs[p] # c
    /\ fs' = [fs EXCEPT ![p] = c]
    /\ quarantined_from' = quarantined_from \ {p}
    /\ l_rerun' = (l_rerun /\ p # lpath)
    /\ UNCHANGED <<require_signatures, allowed_hashes, max_plugin_size,
                   quarantine, now, mapped, lpc, lpath, file_content, hash,
                   lresult, l_mapped, loads>>

\* another process writes a file while no watcher is running
WriteFile(p, c) ==
    /\ WriteBytes(p, c)
    /\ UNCHANGED <<dvars, xvars>>

\* the clock advances
Tick ==
    /\ now < MaxTime
    /\ now' = now + 1
    /\ UNCHANGED <<require_signatures, allowed_hashes, max_plugin_size, fs,
                   quarantine, mapped, lpc, lpath, file_content, hash,
                   lresult, l_mapped, l_rerun, quarantined_from, loads>>
    /\ UNCHANGED <<dvars, xvars>>

PNext ==
    \/ \E p \in Paths : LoadStart(p)
    \/ LoadMetadata
    \/ LoadRead
    \/ LoadQuarantine
    \/ \E o \in {"Loaded", "LoadFailed", "MissingSymbol"} : LoadMap(o)
    \/ \E p \in Paths, c \in Contents : WriteFile(p, c)
    \/ Tick

(* --------------------------- hot-reload loop -------------------------- *)
\* capacity of the watcher's channel and of the plugin event bus
WATCH_CAPACITY == 8
BUS_CAPACITY == 16

\* PluginEvent::Reload(path) and PluginEvent::SecurityViolation(msg); the
\* message is kept as the path it was formatted from
ReloadEvent(p) == [kind |-> "Reload", path |-> p]
SecurityViolationEvent(p) == [kind |-> "SecurityViolation", path |-> p]

\* what the plugin's factory does when lib.instantiate() calls it. The
\* factory is called through an `extern "C"` pointer, across which a panic
\* must not unwind: either the unwinding reaches catch_unwind all the same
\* ("Panic") or the process is aborted at the boundary ("PanicAborts")
InstantiateOutcomes == {"Ok", "Null", "Panic", "PanicAborts"}

\* hot_reload::validate_plugin_path: extension allowed, path exists
ValidPluginPath(p) ==
    ExtensionOf(p) \in allowed_extensions /\ fs[p] # NoFile

RInit ==
    /\ watch_rx = <<>>
    /\ notified = 0
    /\ bus = <<>>
    /\ rpc = "recv"
    /\ lib = 0
    /\ new_agent = NoAgent
    /\ new_name = "echo"
    /\ violations = {}
    /\ reload_log = "none"

\* another process writes a file and the OS watcher reports the Modify
\* event for its path: tx.blocking_send(res)
FileModified(p, c) ==
    /\ notified < MaxLoads
    /\ Len(watch_rx) < WATCH_CAPACITY
    /\ WriteBytes(p, c)
    /\ notified' = notified + 1
    /\ watch_rx' = Append(watch_rx, p)
    /\ UNCHANGED <<bus, rpc, lib, new_agent, new_name, violations,
                   reload_log>>
    /\ UNCHANGED <<dvars, gvars, avars, tvars, mvars, svars, jvars, yvars>>

\* watch: rx.recv() yields a Modify event; the path is validated and either
\* SecurityViolation or Reload is sent on the bus
WatchModify ==
    /\ rpc # "aborted"
    /\ watch_rx # <<>>
    /\ Len(bus) < BUS_CAPACITY
    /\ watch_rx' = Tail(watch_rx)
    /\ IF ValidPluginPath(Head(watch_rx))
       THEN /\ bus' = Append(bus, ReloadEvent(Head(watch_rx)))
            /\ violations' = violations
       ELSE /\ bus' = Append(bus, SecurityViolationEvent(Head(watch_rx)))
            /\ violations' = violations \cup {Head(watch_rx)}
    /\ UNCHANGED <<notified, rpc, lib, new_agent, new_name, reload_log>>
    /\ UNCHANGED <<dvars, pvars, gvars, avars, tvars, mvars, svars, jvars,
                   yvars>>

\* reload loop: bus_rx.recv() yields Reload(path); Plugin::load is entered
ReloadRecv ==
    /\ rpc = "recv"
    /\ bus # <<>>
    /\ Head(bus).kind = "Reload"
    /\ LoadEnter(Head(bus).path)
    /\ bus' = Tail(bus)
    /\ rpc' = "load"
    /\ reload_log' = "processing"
    /\ UNCHANGED <<watch_rx, notified, lib, new_agent, new_name, violations>>
    /\ UNCHANGED <<dvars, gvars, avars, tvars, mvars, svars, jvars, yvars>>

\* reload loop: bus_rx.recv() yields SecurityViolation(msg): warn! only
ViolationRecv ==
    /\ rpc = "recv"
    /\ bus # <<>>
    /\ Head(bus).kind = "SecurityViolation"
    /\ bus' = Tail(bus)
    /\ reload_log' = "security_violation"
    /\ UNCHANGED <<watch_rx, notified, rpc, lib, new_agent, new_name,
                   violations>>
    /\ UNCHANGED <<dvars, pvars, gvars, avars, tvars, mvars, svars, jvars,
                   yvars>>

\* Plugin::load has returned: Ok(lib) binds the Plugin, Err(e) is logged
ReloadLoaded ==
    /\ rpc = "load"
    /\ lpc = "done"
    /\ IF lresult = "Loaded"
       THEN /\ lib' = loads
            /\ rpc' = "instantiate"
            /\ reload_log' = reload_log
       ELSE /\ lib' = 0
            /\ rpc' = "recv"
            /\ reload_log' = "load_failed"
    /\ UNCHANGED <<watch_rx, notified, bus, new_agent, new_name, violations>>
    /\ UNCHANGED <<dvars, pvars, gvars, avars, tvars, mvars, svars, jvars,
                   yvars>>

\* lib.instantiate(): Ok(agent), or an error (null pointer, caught panic)
\* that is logged, after which the arm ends and `lib` is dropped; or the
\* process is aborted and with it the reload loop and the watcher
ReloadInstantiate(io, n) ==
    /\ rpc = "instantiate"
    /\ IF io = "Ok"
       THEN /\ new_agent' = PluginAgent(lib)
            /\ new_name' = n
            /\ rpc' = "insert"
            /\ UNCHANGED <<lib, reload_log>>
       ELSE IF io = "PanicAborts"
       THEN /\ rpc' = "aborted"
            /\ UNCHANGED <<lib, new_agent, new_name, reload_log>>
       ELSE /\ lib' = 0
            /\ rpc' = "recv"
            /\ reload_log' = "instantiate_failed"
            /\ UNCHANGED <<new_agent, new_name>>
    /\ UNCHANGED <<watch_rx, notified, bus, violations>>
    /\ UNCHANGED <<dvars, pvars, gvars, avars, tvars, mvars, svars, jvars,
                   yvars>>

\* variant: the old entry is removed in one critical section and the new
\* one inserted in a second one
ReloadInsert_RemoveFirst ==
    /\ rpc = "insert"
    /\ agents_lock = 0
    /\ IF agents[new_name] # NoAgent
       THEN /\ agents' = [agents EXCEPT ![new_name] = NoAgent]
            /\ UNCHANGED <<lib, rpc, reload_log>>
       ELSE /\ agents' = [agents EXCEPT ![new_name] = new_agent]
            /\ lib' = 0
            /\ rpc' = "recv"
            /\ reload_log' = "reloaded"
    /\ ever_registered' = ever_registered \cup {new_name}
    /\ UNCHANGED <<watch_rx, notified, bus, new_agent, new_name, violations>>
    /\ UNCHANGED <<max_concurrent_tasks, permits, agents_lock, pc, task_name,
                   task_input, permit, agent, handler_result, response, chan,
                   rx_open, received, sends, send_result, ret>>
    /\ UNCHANGED <<pvars, gvars, avars, tvars, mvars, svars, jvars, yvars>>

\* agents_reload.lock().await.insert(name, Arc::from(agent)): one insert
\* under the registry mutex; then the Ok(lib) arm ends and the Plugin, with
\* its Arc<Library>, goes out of scope
ReloadInsert ==
    /\ rpc = "insert"
    /\ agents_lock = 0
    /\ agents' = [agents EXCEPT ![new_name] = new_agent]
    /\ ever_registered' = ever_registered \cup {new_name}
    /\ lib' = 0
    /\ rpc' = "recv"
    /\ reload_log' = "reloaded"
    /\ UNCHANGED <<watch_rx, notified, bus, new_agent, new_name, violations>>
    /\ UNCHANGED <<max_concurrent_tasks, permits, agents_lock, pc, task_name,
                   task_input, permit, agent, handler_result, response, chan,
                   rx_open, received, sends, send_result, ret>>
    /\ UNCHANGED <<pvars, gvars, avars, tvars, mvars, svars, jvars, yvars>>

RNext ==
    \/ \E p \in Paths, c \in Contents : FileModified(p, c)
    \/ WatchModify
    \/ ReloadRecv
    \/ ViolationRecv
    \/ LoadMetadata
    \/ LoadRead
    \/ LoadQuarantine
    \/ \E o \in {"Loaded", "LoadFailed", "MissingSymbol"} : LoadMap(o)
    \/ ReloadLoaded
    \/ \E io \in InstantiateOutcomes, n \in Names : ReloadInstantiate(io, n)
    \/ ReloadInsert

(* ------------------------ the watched quarantine ---------------------- *)
\* w.watch(&dir, RecursiveMode::Recursive) covers <dir>/quarantine, the
\* directory quarantine_plugin moves files into; a file there keeps the
\* extension of the path it came from
QInit ==
    /\ q_rx = <<>>
    /\ q_bus = <<>>
    /\ q_notified = {}
    /\ q_deeper = {}
    /\ q_mapped = {}

\* what a file of <dir>/quarantine can be
QuarantineFiles ==
    {[name |-> QuarantineName(ts, p), content |-> c] :
        ts \in 0..MaxTime, p \in Paths, c \in Contents}

\* the files of <dir>/quarantine with this file name
QuarantinedAs(name) == {q \in quarantine : q.name = name}

\* the OS watcher reports a Modify event (the rename that brought the file,
\* or a later write) for a file of <dir>/quarantine: tx.blocking_send(res)
QuarantineNotified(q) ==
    /\ rpc # "aborted"
    /\ q \in quarantine
    /\ q.name \notin q_notified
    /\ Len(q_rx) < WATCH_CAPACITY
    /\ q_notified' = q_notified \cup {q.name}
    /\ q_rx' = Append(q_rx, q.name)
    /\ UNCHANGED <<q_bus, q_deeper, q_mapped>>
    /\ UNCHANGED <<zvars, ivars, uvars, cvars>>

\* hot_reload::validate_plugin_path on a path in <dir>/quarantine
ValidQuarantinedPath(name) ==
    ExtensionOf(name[2]) \in allowed_extensions /\ QuarantinedAs(name) # {}

\* watch: rx.recv() yields the Modify event of a file of <dir>/quarantine
QuarantineWatchModify ==
    /\ rpc # "aborted"
    /\ q_rx # <<>>
    /\ Len(q_bus) < BUS_CAPACITY
    /\ q_rx' = Tail(q_rx)
    /\ IF ValidQuarantinedPath(Head(q_rx))
       THEN q_bus' = Append(q_bus, ReloadEvent(Head(q_rx)))
       ELSE q_bus' = Append(q_bus, SecurityViolationEvent(Head(q_rx)))
    /\ UNCHANGED <<q_notified, q_deeper, q_mapped>>
    /\ UNCHANGED <<zvars, ivars, uvars, cvars>>

\* Plugin::load on a file of <dir>/quarantine with content c, up to the
\* allowlist decision
QuarantinedLoad(c) ==
    IF FileLen(c) > max_plugin_size THEN "FileTooLarge"
    ELSE IF require_signatures /\ allowed_hashes = {} THEN "AllowlistEmpty"
    ELSE IF require_signatures /\ ~HashAllowed(Sha256(c))
    THEN "NotAllowlisted"
    ELSE "Map"

\* quarantine_plugin on a file of <dir>/quarantine: its parent joined with
\* "quarantine" is <dir>/quarantine/quarantine, and the new file name puts
\* a second timestamp in front of the old one
DeeperName(name) == <<now>> \o name

\* reload loop: bus_rx.recv() yields an event for a path in
\* <dir>/quarantine; Plugin::load runs on that path: a file that is not
\* allowlisted is renamed into <dir>/quarantine/quarantine, another one is
\* mapped by Library::new and, once create_agent is found, instantiated
QuarantineReloadRecv(outcome) ==
    /\ rpc = "recv"
    /\ q_bus # <<>>
    /\ q_bus' = Tail(q_bus)
    /\ LET name == Head(q_bus).path
           here == QuarantinedAs(name)
       IN  IF Head(q_bus).kind = "SecurityViolation"
           THEN /\ reload_log' = "security_violation"
                /\ UNCHANGED <<quarantine, q_deeper, q_mapped, lib, rpc>>
           ELSE IF here = {}
           THEN /\ reload_log' = "load_failed"
                /\ UNCHANGED <<quarantine, q_deeper, q_mapped, lib, rpc>>
           ELSE LET q == CHOOSE r \in here : TRUE
                IN  IF QuarantinedLoad(q.content) = "NotAllowlisted"
                    THEN /\ quarantine' = quarantine \ {q}
                         /\ q_deeper' = q_deeper \cup
                                {[name |-> DeeperName(q.name),
                                  content |-> q.content]}
                         /\ reload_log' = "load_failed"
                         /\ UNCHANGED <<q_mapped, lib, rpc>>
                    ELSE IF QuarantinedLoad(q.content) # "Map"
                            \/ outcome = "LoadFailed"
                    THEN /\ reload_log' = "load_failed"
                         /\ UNCHANGED <<quarantine, q_deeper, q_mapped, lib,
                                        rpc>>
                    ELSE IF outcome = "MissingSymbol"
                    THEN /\ q_mapped' = q_mapped \cup {q.content}
                         /\ reload_log' = "load_failed"
                         /\ UNCHANGED <<quarantine, q_deeper, lib, rpc>>
                    ELSE /\ q_mapped' = q_mapped \cup {q.content}
                         /\ lib' = MaxLoads + 1
                         /\ rpc' = "instantiate"
                         /\ reload_log' = "processing"
                         /\ UNCHANGED <<quarantine, q_deeper>>
    /\ UNCHANGED <<q_rx, q_notified>>
    /\ UNCHANGED <<watch_rx, notified, bus, new_agent, new_name, violations>>
    /\ UNCHANGED <<require_signatures, allowed_hashes, max_plugin_size, fs,
                   now, mapped, lpc, lpath, file_content, hash, lresult,
                   l_mapped, l_rerun, quarantined_from, loads>>
    /\ UNCHANGED <<dvars, gvars, avars, tvars, mvars, svars, jvars, ivars,
                   uvars, cvars>>

QNext ==
    \/ \E q \in QuarantineFiles : QuarantineNotified(q)
    \/ QuarantineWatchModify
    \/ \E o \in {"Loaded", "LoadFailed", "MissingSymbol"} :
            QuarantineReloadRecv(o)

(* ------------------------- credential store --------------------------- *)
\* usernames callers try; alice has an active row in the users table, bob a
\* row with active = 0, carol has no row
Users == {"alice", "bob", "carol"}
UserRows == {"alice", "bob"}
ActiveUsers == {"alice"}
Passwords == {"good", "bad"}
\* authenticate calls that may be in progress at the same time
AuthCallers == {1, 2}
\* values of settings.security.lockout_duration_minutes, in clock units
LockoutDurations == {1, 2}

\* Option<Instant>::None in a login_attempts entry
NoLock == -1
\* a_until of a call during which a lockout window was opened
Mixed == -2
\* a missing entry; entry().or_insert((0, None)) makes it the same thing
NoAttempts == [count |-> 0, until |-> NoLock]

\* verify_password(password, &user.password_hash)
VerifyPassword(u, pw) == pw = "good"

\* the JWT generate_token signs for the user at the current time
NewToken(u) == [sub |-> u, exp |-> clock + jwt_expiry, sig |-> "valid"]

\* a username without a row in the users table, or without a cache entry
NoRow == [admin |-> FALSE, active |-> FALSE, present |-> FALSE]
\* a User: roles holding "admin" or not, and the active flag; every
\* password_hash is a hash of the password VerifyPassword accepts
User(adm, act) == [admin |-> adm, active |-> act, present |-> TRUE]
\* the users table the authenticate runs are made against
FixtureUsers ==
    [u \in Users |-> IF u \in UserRows
                     THEN User(u \in ActiveUsers, u \in ActiveUsers)
                     ELSE NoRow]
\* calls of initialize_admin, disable_user and update_password that may be
\* in progress at the same time
UserCallers == {1, 2}
\* usernames those calls are made with
ManagedUsers == {"alice", "bob"}

UInit ==
    /\ users \in {[u \in Users |-> NoRow], FixtureUsers}
    /\ user_cache \in {[u \in Users |-> NoRow], users}
    /\ a_rec = [k \in AuthCallers |-> NoRow]
    /\ a_late = [k \in AuthCallers |-> FALSE]
    /\ upc = [k \in UserCallers |-> "idle"]
    /\ u_op = [k \in UserCallers |-> "none"]
    /\ u_name = [k \in UserCallers |-> "alice"]
    /\ u_rec = [k \in UserCallers |-> NoRow]
    /\ u_ret = [k \in UserCallers |-> "none"]
    /\ u_late = [k \in UserCallers |-> FALSE]
    /\ disabled = {}
    /\ admin_inits = 0

\* user management at rest: the fixture's rows, all of them cached
UQuiet ==
    /\ UInit
    /\ users = FixtureUsers
    /\ user_cache = FixtureUsers

AInit ==
    /\ max_login_attempts \in 1..MaxLoginAttempts
    /\ lockout_duration \in LockoutDurations
    /\ clock = 0
    /\ login_attempts = [u \in Users |-> NoAttempts]
    /\ apc = [k \in AuthCallers |-> "idle"]
    /\ a_user = [k \in AuthCallers |-> "alice"]
    /\ a_pw = [k \in AuthCallers |-> "good"]
    /\ a_ret = [k \in AuthCallers |-> "none"]
    /\ a_until = [k \in AuthCallers |-> NoLock]
    /\ consec = [u \in Users |-> 0]
    /\ window_until = [u \in Users |-> 0]

\* `if !user.active { return Err(..) }` for the call's local `user`
ActiveCheck(k, rec) ==
    IF ~rec.active
    THEN /\ a_ret' = [a_ret EXCEPT ![k] = "User account is disabled"]
         /\ apc' = [apc EXCEPT ![k] = "done"]
    ELSE /\ a_ret' = [a_ret EXCEPT ![k] = "none"]
         /\ apc' = [apc EXCEPT ![k] = "check"]

\* authenticate is called: get_user answers from the cache, or fails on a
\* username without a row, or has fetched the row and is yet to cache it;
\* then the active check
AuthBegin(k, u, pw) ==
    /\ apc[k] \in {"idle", "done"}
    /\ a_user' = [a_user EXCEPT ![k] = u]
    /\ a_pw' = [a_pw EXCEPT ![k] = pw]
    /\ a_until' = [a_until EXCEPT
                     ![k] = IF clock < window_until[u]
                            THEN window_until[u] ELSE NoLock]
    /\ a_late' = [a_late EXCEPT ![k] = u \in disabled]
    /\ IF user_cache[u].present
       THEN /\ a_rec' = [a_rec EXCEPT ![k] = user_cache[u]]
            /\ ActiveCheck(k, user_cache[u])
       ELSE IF ~users[u].present
       THEN /\ a_rec' = [a_rec EXCEPT ![k] = NoRow]
            /\ a_ret' = [a_ret EXCEPT ![k] = "User not found"]
            /\ apc' = [apc EXCEPT ![k] = "done"]
       ELSE /\ a_rec' = [a_rec EXCEPT ![k] = users[u]]
            /\ a_ret' = [a_ret EXCEPT ![k] = "none"]
            /\ apc' = [apc EXCEPT ![k] = "fetched"]
    /\ UNCHANGED <<max_login_attempts, lockout_duration, clock,
                   login_attempts, consec, window_until>>
    /\ UNCHANGED <<users, user_cache, upc, u_op, u_name, u_rec, u_ret,
                   u_late, disabled, admin_inits>>
    /\ UNCHANGED <<zvars_but_a, ivars, cvars, qvars>>

\* get_user after its query: self.cache.insert(..); then the active check
AuthFetched(k) ==
    /\ apc[k] = "fetched"
    /\ user_cache' = [user_cache EXCEPT ![a_user[k]] = a_rec[k]]
    /\ ActiveCheck(k, a_rec[k])
    /\ UNCHANGED <<max_login_attempts, lockout_duration, clock,
                   login_attempts, a_user, a_pw, a_until, consec,
                   window_until>>
    /\ UNCHANGED <<users, a_rec, a_late, upc, u_op, u_name, u_rec, u_ret,
                   u_late, disabled, admin_inits>>
    /\ UNCHANGED <<zvars_but_a, ivars, cvars, qvars>>

\* the lockout check: login_attempts.get(username), until > Instant::now()
AuthCheckLock(k) ==
    /\ apc[k] = "check"
    /\ IF login_attempts[a_user[k]].until # NoLock
            /\ login_attempts[a_user[k]].until > clock
       THEN /\ a_ret' = [a_ret EXCEPT ![k] = "Account temporarily locked"]
            /\ apc' = [apc EXCEPT ![k] = "done"]
       ELSE /\ apc' = [apc EXCEPT ![k] = "verify"]
            /\ a_ret' = a_ret
    /\ UNCHANGED <<max_login_attempts, lockout_duration, clock,
                   login_attempts, a_user, a_pw, a_until, consec,
                   window_until>>
    /\ UNCHANGED <<dvars, pvars, rvars, gvars, tvars, mvars, svars, jvars,
                   yvars>>

\* variant: the lockout is set by the failure after the one that reaches
\* max_login_attempts
AttemptsAfterFailure_Late(u) ==
    [login_attempts EXCEPT
        ![u] = [count |-> @.count + 1,
                until |-> IF @.count >= max_login_attempts
                          THEN clock + lockout_duration ELSE @.until]]

\* the entry after a failed attempt: entry.0 += 1, and the lockout is set
\* when the count has reached max_login_attempts (one step under the
\* entry's guard)
AttemptsAfterFailure(u) ==
    [login_attempts EXCEPT
        ![u] = [count |-> @.count + 1,
                until |-> IF @.count + 1 >= max_login_attempts
                          THEN clock + lockout_duration ELSE @.until]]

\* variant: a success leaves the entry in place
AttemptsAfterSuccess_Keep(u) == login_attempts

\* self.login_attempts.remove(username)
AttemptsAfterSuccess(u) == [login_attempts EXCEPT ![u] = NoAttempts]

\* verify_password and what follows it: a failure is counted and answered
\* "Invalid credentials", a success clears the entry and returns the token
\* generate_token builds
AuthVerify(k) ==
    /\ apc[k] = "verify"
    /\ apc' = [apc EXCEPT ![k] = "done"]
    /\ IF ~VerifyPassword(a_user[k], a_pw[k])
       THEN /\ login_attempts' = AttemptsAfterFailure(a_user[k])
            /\ a_ret' = [a_ret EXCEPT ![k] = "Invalid credentials"]
            /\ consec' = [consec EXCEPT ![a_user[k]] = @ + 1]
            /\ IF consec[a_user[k]] + 1 >= max_login_attempts
               THEN /\ window_until' = [window_until EXCEPT
                            ![a_user[k]] = clock + lockout_duration]
                    /\ a_until' = [j \in AuthCallers |->
                            IF j # k /\ apc[j] \in {"check", "verify"}
                                /\ a_user[j] = a_user[k]
                            THEN Mixed ELSE a_until[j]]
               ELSE UNCHANGED <<window_until, a_until>>
       ELSE /\ login_attempts' = AttemptsAfterSuccess(a_user[k])
            /\ a_ret' = [a_ret EXCEPT ![k] = "Token"]
            /\ consec' = [consec EXCEPT ![a_user[k]] = 0]
            /\ UNCHANGED <<window_until, a_until>>
    /\ UNCHANGED <<max_login_attempts, lockout_duration, clock, a_user, a_pw>>
    /\ UNCHANGED <<dvars, pvars, rvars, gvars, tvars, mvars, svars, jvars,
                   yvars>>

\* a second passes
ClockTick ==
    /\ clock < MaxClock
    /\ clock' = clock + 1
    /\ UNCHANGED <<max_login_attempts, lockout_duration, login_attempts, apc,
                   a_user, a_pw, a_ret, a_until, consec, window_until>>
    /\ UNCHANGED <<dvars, pvars, rvars, gvars, tvars, mvars, svars, jvars,
                   yvars>>

ANext ==
    \/ \E k \in AuthCallers, u \in Users, pw \in Passwords : AuthBegin(k, u, pw)
    \/ \E k \in AuthCallers : AuthCheckLock(k)
    \/ \E k \in AuthCallers : AuthVerify(k)
    \/ ClockTick

(* -------------------------- user management -------------------------- *)
\* has_admin: SELECT 1 FROM users WHERE roles LIKE '%admin%' finds a row
HasAdminRow == \E u \in Users : users[u].present /\ users[u].admin

\* a counter that tells none, one, and more than one apart
UpTo2(n) == IF n >= 2 THEN 2 ELSE n + 1

\* a user-management call is made
UserCallBegin(k, op, u) ==
    /\ upc[k] \in {"idle", "done"}
    /\ u_op' = [u_op EXCEPT ![k] = op]
    /\ u_name' = [u_name EXCEPT ![k] = u]
    /\ u_late' = [u_late EXCEPT ![k] = HasAdminRow]
    /\ UNCHANGED <<users, user_cache, a_rec, a_late, disabled, admin_inits>>
    /\ UNCHANGED <<zvars, ivars, cvars, qvars>>

\* initialize_admin(username, password) is called
InitializeAdmin(k, u) ==
    /\ UserCallBegin(k, "initialize_admin", u)
    /\ upc' = [upc EXCEPT ![k] = "has_admin"]
    /\ u_ret' = [u_ret EXCEPT ![k] = "none"]
    /\ u_rec' = [u_rec EXCEPT ![k] = NoRow]

\* self.has_admin().await?: with an admin row the call fails
HasAdmin(k) ==
    /\ upc[k] = "has_admin"
    /\ IF HasAdminRow
       THEN /\ upc' = [upc EXCEPT ![k] = "done"]
            /\ u_ret' = [u_ret EXCEPT ![k] = "Admin user already exists"]
       ELSE /\ upc' = [upc EXCEPT ![k] = "insert"]
            /\ u_ret' = u_ret
    /\ UNCHANGED <<users, user_cache, a_rec, a_late, u_op, u_name, u_rec,
                   u_late, disabled, admin_inits>>
    /\ UNCHANGED <<zvars, ivars, cvars, qvars>>

\* add_user: INSERT INTO users ..; id and username are unique, so a second
\* row for the username is an error
AddUserInsert(k) ==
    /\ upc[k] = "insert"
    /\ IF users[u_name[k]].present
       THEN /\ upc' = [upc EXCEPT ![k] = "done"]
            /\ u_ret' = [u_ret EXCEPT ![k] = "UNIQUE constraint failed"]
            /\ UNCHANGED <<users, u_rec>>
       ELSE /\ users' = [users EXCEPT ![u_name[k]] = User(TRUE, TRUE)]
            /\ u_rec' = [u_rec EXCEPT ![k] = User(TRUE, TRUE)]
            /\ upc' = [upc EXCEPT ![k] = "cache"]
            /\ u_ret' = u_ret
    /\ UNCHANGED <<user_cache, a_rec, a_late, u_op, u_name, u_late, disabled,
                   admin_inits>>
    /\ UNCHANGED <<zvars, ivars, cvars, qvars>>

\* self.cache.insert(username, user)
CacheAfterInsert(u, rec) == [user_cache EXCEPT ![u] = rec]

\* the end of add_user and of update_user: the cache entry, then Ok(())
UserCallCache(k) ==
    /\ upc[k] = "cache"
    /\ user_cache' = CacheAfterInsert(u_name[k], u_rec[k])
    /\ upc' = [upc EXCEPT ![k] = "done"]
    /\ u_ret' = [u_ret EXCEPT ![k] = "Ok"]
    /\ disabled' = IF u_op[k] = "disable_user"
                   THEN disabled \cup {u_name[k]} ELSE disabled
    /\ admin_inits' = IF u_op[k] = "initialize_admin"
                      THEN UpTo2(admin_inits) ELSE admin_inits
    /\ UNCHANGED <<users, a_rec, a_late, u_op, u_name, u_rec, u_late>>
    /\ UNCHANGED <<zvars, ivars, cvars, qvars>>

\* what disable_user and update_password do to their local `user`: the one
\* clears the active flag, the other replaces password_hash by a new hash
Edited(op, rec) ==
    IF op = "disable_user" THEN [rec EXCEPT !.active = FALSE] ELSE rec

\* disable_user(username) or update_password(username, ..) is called:
\* get_user answers from the cache, or fails on a username without a row,
\* or has fetched the row and is yet to cache it
UpdateCall(k, op, u) ==
    /\ UserCallBegin(k, op, u)
    /\ IF user_cache[u].present
       THEN /\ u_rec' = [u_rec EXCEPT ![k] = Edited(op, user_cache[u])]
            /\ upc' = [upc EXCEPT ![k] = "update"]
            /\ u_ret' = [u_ret EXCEPT ![k] = "none"]
       ELSE IF ~users[u].present
       THEN /\ u_rec' = [u_rec EXCEPT ![k] = NoRow]
            /\ upc' = [upc EXCEPT ![k] = "done"]
            /\ u_ret' = [u_ret EXCEPT ![k] = "User not found"]
       ELSE /\ u_rec' = [u_rec EXCEPT ![k] = users[u]]
            /\ upc' = [upc EXCEPT ![k] = "fetched"]
            /\ u_ret' = [u_ret EXCEPT ![k] = "none"]

\* get_user after its query: the row is put into the cache and returned
GetUserFetched(k) ==
    /\ upc[k] = "fetched"
    /\ user_cache' = CacheAfterInsert(u_name[k], u_rec[k])
    /\ u_rec' = [u_rec EXCEPT ![k] = Edited(u_op[k], u_rec[k])]
    /\ upc' = [upc EXCEPT ![k] = "update"]
    /\ UNCHANGED <<users, a_rec, a_late, u_op, u_name, u_ret, u_late,
                   disabled, admin_inits>>
    /\ UNCHANGED <<zvars, ivars, cvars, qvars>>

\* update_user: UPDATE users SET password_hash, roles, active of the row
UpdateUserRow(k) ==
    /\ upc[k] = "update"
    /\ users' = IF users[u_name[k]].present
                THEN [users EXCEPT ![u_name[k]] = u_rec[k]] ELSE users
    /\ upc' = [upc EXCEPT ![k] = "cache"]
    /\ UNCHANGED <<user_cache, a_rec, a_late, u_op, u_name, u_rec, u_ret,
                   u_late, disabled, admin_inits>>
    /\ UNCHANGED <<zvars, ivars, cvars, qvars>>

(* ------------------------------ start-up ------------------------------ *)
\* the fields of Settings that validate looks at: server.port,
\* server.max_connections, whether memory.provider is "redis" without a url,
\* whether authentication is enabled without a jwt_secret, and whether
\* llm.provider is "llama" without an entry for llm.default_model
SettingsValues ==
    [port : {0, 8080}, max_connections : {0, 100},
     redis_without_url : BOOLEAN, auth_without_secret : BOOLEAN,
     llama_without_default : BOOLEAN]

\* Settings::validate: the first check that fails gives the error
validate(st) ==
    IF st.port = 0 THEN "Server port cannot be 0"
    ELSE IF st.max_connections = 0 THEN "Max connections cannot be 0"
    ELSE IF st.redis_without_url THEN "Redis provider requires AEP_MEMORY_URL"
    ELSE IF st.auth_without_secret THEN "Authentication enabled but no secret"
    ELSE IF st.llama_without_default THEN "Default LLM model not found"
    ELSE "Ok"

CInit ==
    /\ settings \in SettingsValues
    /\ boot = "load"
    /\ boot_err = "none"

\* main: Settings::load()?, which ends with settings.validate()?
SettingsLoad ==
    /\ boot = "load"
    /\ IF validate(settings) = "Ok"
       THEN boot' = "loaded" /\ boot_err' = boot_err
       ELSE boot' = "fatal" /\ boot_err' = validate(settings)
    /\ UNCHANGED settings
    /\ UNCHANGED <<zvars, ivars, uvars, qvars>>

\* main: server::serve(&settings), which builds the Orchestrator with
\* PluginSecurityConfig::from_security_config
Serve ==
    /\ boot = "loaded"
    /\ boot' = "serving"
    /\ UNCHANGED <<settings, boot_err>>
    /\ UNCHANGED <<zvars, ivars, uvars, qvars>>

\* the running service calls Plugin::load
ServiceLoad(p) ==
    /\ boot = "serving"
    /\ LoadStart(p)

\* a service that has started, for the other runs
CQuiet ==
    /\ settings = [port |-> 8080, max_connections |-> 100,
                   redis_without_url |-> FALSE, auth_without_secret |-> FALSE,
                   llama_without_default |-> FALSE]
    /\ boot = "serving"
    /\ boot_err = "none"

(* --------------------------- token service ---------------------------- *)
\* values of settings.security.jwt_expiry_hours, in clock units
JwtExpiries == {1, 2}
\* values of Validation.leeway (the library's default), in clock units
Leeways == {0, 1}

\* a token string whose signature was not made with jwt_secret
Forged(t) == [t EXCEPT !.sig = "forged"]
\* the token strings callers present
PresentedTokens == issued \cup {Forged(t) : t \in issued}
\* every token string there can be
AllTokens ==
    [sub : ActiveUsers, exp : 1..(MaxClock + 2), sig : {"valid", "forged"}]

\* decode::<Claims>(token, &decoding_key, &validation): the signature, and
\* with validate_exp the expiry, which is rejected when exp < now - leeway
DecodeOk(t, validate_exp) ==
    t.sig = "valid" /\ (validate_exp => t.exp >= clock - leeway)

\* is_token_revoked: a blacklisted token whose stored exp is still ahead
IsTokenRevoked(t) == t \in token_blacklist /\ t.exp > clock

\* is_token_revoked removes the entry it finds expired
BlacklistAfterCheck(t) ==
    IF t \in token_blacklist /\ ~(t.exp > clock)
    THEN token_blacklist \ {t} ELSE token_blacklist

NoTokenCall ==
    [op |-> "none", token |-> [sub |-> "alice", exp |-> 0, sig |-> "valid"],
     at |-> 0, ret |-> "none"]

TInit ==
    /\ jwt_expiry \in JwtExpiries
    /\ leeway \in Leeways
    /\ issued = {}
    /\ token_blacklist = {}
    /\ revoked = {}
    /\ tok_call = NoTokenCall

\* generate_token, reached from a successful authenticate
GenerateToken(u) ==
    /\ Cardinality(issued) < MaxTokens
    /\ NewToken(u) \notin issued
    /\ issued' = issued \cup {NewToken(u)}
    /\ UNCHANGED <<jwt_expiry, leeway, token_blacklist, revoked, tok_call>>
    /\ UNCHANGED <<dvars, pvars, rvars, gvars, avars, mvars, svars, jvars,
                   yvars>>

\* validate_token: the blacklist first, then decode with the default checks
ValidateToken(t) ==
    /\ t \in PresentedTokens
    /\ token_blacklist' = BlacklistAfterCheck(t)
    /\ tok_call' = [op |-> "validate", token |-> t, at |-> clock,
                    ret |-> IF IsTokenRevoked(t)
                            THEN "Token has been revoked"
                            ELSE IF DecodeOk(t, TRUE) THEN "Ok"
                            ELSE "Token validation failed"]
    /\ UNCHANGED <<jwt_expiry, leeway, issued, revoked>>
    /\ UNCHANGED <<dvars, pvars, rvars, gvars, avars, mvars, svars, jvars,
                   yvars>>

\* revoke_token: decode without the expiry check, then
\* token_blacklist.insert(token, claims.exp)
RevokeToken(t) ==
    /\ t \in PresentedTokens
    /\ IF DecodeOk(t, FALSE)
       THEN /\ token_blacklist' = token_blacklist \cup {t}
            /\ revoked' = revoked \cup {t}
            /\ tok_call' = [op |-> "revoke", token |-> t, at |-> clock,
                            ret |-> "Ok"]
       ELSE /\ tok_call' = [op |-> "revoke", token |-> t, at |-> clock,
                            ret |-> "Invalid token"]
            /\ UNCHANGED <<token_blacklist, revoked>>
    /\ UNCHANGED <<jwt_expiry, leeway, issued>>
    /\ UNCHANGED <<dvars, pvars, rvars, gvars, avars, mvars, svars, jvars,
                   yvars>>

TNext ==
    \/ \E u \in ActiveUsers : GenerateToken(u)
    \/ \E t \in AllTokens : ValidateToken(t)
    \/ \E t \in AllTokens : RevokeToken(t)
    \/ ClockTick

\* the credential store and the token service at rest
AQuiet == AInit /\ max_login_attempts = 1 /\ lockout_duration = 1
TQuiet == TInit /\ jwt_expiry = 1 /\ leeway = 0

(* --------------------------- fragment store --------------------------- *)
\* contents handed to add_memory; "" stands for blank content
MemContents == {"a", "b", ""}
\* add_memory calls that may be in progress at the same time
MemCallers == {1, 2}
\* embedding vectors the embedding agent may answer with
Vectors == {<<1, 0>>, <<1, 1>>}
\* serde_json accepts "[]" as a Vec<f32>
EmptyVector == <<>>
\* how embedding_agent.handle and the parse of its answer end: the agent
\* fails, its answer is not a JSON array of numbers, or it is a vector
EmbeddingOutcomes == {"Err", "Unparsable", "Vec"}
\* Option<Vec<f32>> as cache.get returns it
NoEntry == [some |-> FALSE, vec |-> EmptyVector]
Entry(v) == [some |-> TRUE, vec |-> v]
\* cache_key: "embedding:" followed by the Blake3 digest of the content
cache_key(c) == <<"embedding:", c>>
CacheKeys == {cache_key(c) : c \in MemContents}
\* EmbeddingCache::get
CacheGet(c) == cache[cache_key(c)]
\* variant: set stores nothing
CacheAfterSet_Skip(c, v) == cache
\* EmbeddingCache::set: storage.insert(key, val)
CacheAfterSet(c, v) == [cache EXCEPT ![cache_key(c)] = Entry(v)]
\* MemoryFragment::new(content, embedding)
MemoryFragment(c, v) == [content |-> c, embedding |-> v]
\* what is known of the add_memory call that last returned for a content
NoCall == [ret |-> "none", invoked |-> FALSE]

MInit ==
    /\ max_fragments \in 0..MaxFragments
    /\ fragments = <<>>
    /\ cache = [key \in CacheKeys |-> NoEntry]
    /\ clear_pc = "idle"
    /\ mpc = [k \in MemCallers |-> "idle"]
    /\ m_content = [k \in MemCallers |-> "a"]
    /\ m_vec = [k \in MemCallers |-> EmptyVector]
    /\ m_ret = [k \in MemCallers |-> "none"]
    /\ m_prev = [k \in MemCallers |-> NoCall]
    /\ m_invoked = [k \in MemCallers |-> FALSE]
    /\ m_cleared = [k \in MemCallers |-> FALSE]
    /\ last_add = [c \in MemContents |-> NoCall]
    /\ embed_calls = [c \in MemContents |-> 0]
    /\ returned = [c \in MemContents |-> EmptyVector]
    /\ inserted = <<>>
    /\ adds = 0
    /\ cleared = FALSE

\* variant: every call reports an embedding failure
AddReturns_Failed(k, c, inv, r) ==
    /\ m_ret' = [m_ret EXCEPT ![k] = "EmbeddingFailed"]
    /\ mpc' = [mpc EXCEPT ![k] = "done"]
    /\ last_add' = last_add

\* bookkeeping when the add_memory call of k returns r
AddReturns(k, c, inv, r) ==
    /\ m_ret' = [m_ret EXCEPT ![k] = r]
    /\ mpc' = [mpc EXCEPT ![k] = "done"]
    /\ last_add' = [last_add EXCEPT ![c] =
                        IF m_cleared[k] THEN NoCall
                        ELSE [ret |-> r, invoked |-> inv]]

\* add_memory up to the embedding: the blank check and cache.get
AddBegin(k, c) ==
    /\ mpc[k] \in {"idle", "done"}
    /\ adds < MaxAdds
    /\ adds' = adds + 1
    /\ m_content' = [m_content EXCEPT ![k] = c]
    /\ m_prev' = [m_prev EXCEPT ![k] = last_add[c]]
    /\ m_invoked' = [m_invoked EXCEPT ![k] = FALSE]
    /\ m_cleared' = [m_cleared EXCEPT ![k] = FALSE]
    /\ IF c = ""
       THEN /\ m_ret' = [m_ret EXCEPT ![k] = "EmptyContent"]
            /\ mpc' = [mpc EXCEPT ![k] = "done"]
            /\ UNCHANGED <<m_vec, last_add>>
       ELSE IF CacheGet(c).some
       THEN /\ m_vec' = [m_vec EXCEPT ![k] = CacheGet(c).vec]
            /\ mpc' = [mpc EXCEPT ![k] = "store"]
            /\ m_ret' = [m_ret EXCEPT ![k] = "none"]
            /\ last_add' = last_add
       ELSE /\ m_vec' = [m_vec EXCEPT ![k] = EmptyVector]
            /\ mpc' = [mpc EXCEPT ![k] = "embed"]
            /\ m_ret' = [m_ret EXCEPT ![k] = "none"]
            /\ last_add' = last_add
    /\ UNCHANGED <<max_fragments, fragments, cache, clear_pc, embed_calls,
                   returned, inserted, cleared>>
    /\ UNCHANGED <<dvars, pvars, rvars, gvars, avars, tvars, svars, jvars,
                   yvars>>

\* the count of invocations, as none, one or several
Once(n) == IF n = 0 THEN 1 ELSE 2
\* the answer of the first invocation for a content is remembered
FirstReturned(c, v) ==
    IF embed_calls[c] = 0 THEN [returned EXCEPT ![c] = v] ELSE returned

\* the cache miss: embedding_agent.handle, the parse of its answer, the
\* empty-vector check and cache.set
AddEmbed(k, o, v) ==
    /\ mpc[k] = "embed"
    /\ m_invoked' = [m_invoked EXCEPT ![k] = TRUE]
    /\ embed_calls' = [embed_calls EXCEPT ![m_content[k]] = Once(@)]
    /\ IF o = "Err"
       THEN /\ AddReturns(k, m_content[k], TRUE, "EmbeddingFailed")
            /\ UNCHANGED <<m_vec, cache, returned>>
       ELSE IF o = "Unparsable"
       THEN /\ AddReturns(k, m_content[k], TRUE, "ParseFailed")
            /\ UNCHANGED <<m_vec, cache, returned>>
       ELSE IF v = EmptyVector
       THEN /\ AddReturns(k, m_content[k], TRUE, "EmptyVector")
            /\ returned' = FirstReturned(m_content[k], v)
            /\ UNCHANGED <<m_vec, cache>>
       ELSE /\ cache' = CacheAfterSet(m_content[k], v)
            /\ m_vec' = [m_vec EXCEPT ![k] = v]
            /\ returned' = FirstReturned(m_content[k], v)
            /\ mpc' = [mpc EXCEPT ![k] = "store"]
            /\ UNCHANGED <<m_ret, last_add>>
    /\ UNCHANGED <<max_fragments, fragments, clear_pc, m_content, m_prev,
                   m_cleared, inserted, adds, cleared>>
    /\ UNCHANGED <<dvars, pvars, rvars, gvars, avars, tvars, svars, jvars,
                   yvars>>

\* variant: the newest fragment is removed at capacity
EvictOldest_Newest(f) == SubSeq(f, 1, Len(f) - 1)

\* fragments.remove(0)
EvictOldest(f) == Tail(f)

\* variant: the fragment is pushed without evicting
FragmentsAfterAdd_NoEvict(c) == Append(fragments, c)

\* if fragments.len() >= max_fragments { fragments.remove(0) }; push
FragmentsAfterAdd(c) ==
    IF Len(fragments) >= max_fragments
    THEN Append(EvictOldest(fragments), c)
    ELSE Append(fragments, c)

\* the section under fragments.write(): evict the oldest at capacity, then
\* push; Vec::remove(0) on an empty Vec panics and nothing is pushed
AddStore(k) ==
    /\ mpc[k] = "store"
    /\ clear_pc = "idle"
    /\ spc # "rerank"
    /\ IF Len(fragments) >= max_fragments /\ fragments = <<>>
       THEN /\ AddReturns(k, m_content[k], m_invoked[k], "Panic")
            /\ UNCHANGED <<fragments, inserted>>
       ELSE /\ AddReturns(k, m_content[k], m_invoked[k], "Ok")
            /\ fragments' =
                 FragmentsAfterAdd(MemoryFragment(m_content[k], m_vec[k]))
            /\ inserted' =
                 Append(inserted, MemoryFragment(m_content[k], m_vec[k]))
    /\ UNCHANGED <<max_fragments, cache, clear_pc, m_content, m_vec, m_prev,
                   m_invoked, m_cleared, embed_calls, returned, adds,
                   cleared>>
    /\ UNCHANGED <<dvars, pvars, rvars, gvars, avars, tvars, svars, jvars,
                   yvars>>

\* clear: fragments.write().await.clear(); the write guard lives to the end
\* of the function
Clear ==
    /\ clear_pc = "idle"
    /\ spc # "rerank"
    /\ clear_pc' = "cache"
    /\ fragments' = <<>>
    /\ inserted' = <<>>
    /\ cleared' = TRUE
    /\ UNCHANGED <<max_fragments, cache, mpc, m_content, m_vec, m_ret,
                   m_prev, m_invoked, m_cleared, last_add, embed_calls,
                   returned, adds>>
    /\ UNCHANGED <<dvars, pvars, rvars, gvars, avars, tvars, svars, jvars,
                   yvars>>

\* clear: self.cache.clear().await, then the write guard is dropped
ClearCache ==
    /\ clear_pc = "cache"
    /\ clear_pc' = "idle"
    /\ cache' = [key \in CacheKeys |-> NoEntry]
    /\ last_add' = [c \in MemContents |-> NoCall]
    /\ m_cleared' = [k \in MemCallers |->
                        mpc[k] \in {"embed", "store"} \/ m_cleared[k]]
    /\ UNCHANGED <<max_fragments, fragments, mpc, m_content, m_vec, m_ret,
                   m_prev, m_invoked, embed_calls, returned, inserted, adds,
                   cleared>>
    /\ UNCHANGED <<dvars, pvars, rvars, gvars, avars, tvars, svars, jvars,
                   yvars>>

MNext ==
    \/ \E k \in MemCallers, c \in MemContents : AddBegin(k, c)
    \/ \E k \in MemCallers, o \in EmbeddingOutcomes,
          v \in Vectors \cup {EmptyVector} : AddEmbed(k, o, v)
    \/ \E k \in MemCallers : AddStore(k)
    \/ Clear
    \/ ClearCache

(* ------------------------------- search ------------------------------- *)
\* queries handed to search_memory; "" stands for a blank query
Queries == MemContents
\* values of top_k
TopKs == 0..MaxTopK
\* a cosine c is kept exactly, as the rational sgn(c) * c^2 = num / den,
\* which orders as c does
Zero == [num |-> 0, den |-> 1]
\* values of Memory.similarity_threshold: 0.1, the default, and the cosine
\* of <<1, 0>> and <<1, 1>>
Thresholds == {[num |-> 1, den |-> 100], [num |-> 1, den |-> 2]}
\* a > b on f32 values
Greater(a, b) == a.num * b.den > b.num * a.den
RECURSIVE Dot(_, _)
\* a.iter().zip(b.iter()).map(|(x, y)| x * y).sum()
Dot(a, b) ==
    IF a = <<>> \/ b = <<>> THEN 0
    ELSE Head(a) * Head(b) + Dot(Tail(a), Tail(b))
\* cosine: 0 on a length mismatch, an empty operand or a zero norm
cosine(a, b) ==
    IF Len(a) # Len(b) \/ a = <<>> THEN Zero
    ELSE IF Dot(a, a) = 0 \/ Dot(b, b) = 0 THEN Zero
    ELSE [num |-> IF Dot(a, b) >= 0 THEN Dot(a, b) * Dot(a, b)
                  ELSE 0 - Dot(a, b) * Dot(a, b),
          den |-> Dot(a, a) * Dot(b, b)]
\* the score of fragment i against the query embedding q
Score(q, i) == cosine(q, fragments[i].embedding)
RECURSIVE Filtered(_, _)
\* .filter(|(score, _)| *score > self.similarity_threshold), over the first
\* n fragments, as fragment indices in iteration order
Filtered(q, n) ==
    IF n = 0 THEN <<>>
    ELSE IF Greater(Score(q, n), similarity_threshold)
    THEN Append(Filtered(q, n - 1), n)
    ELSE Filtered(q, n - 1)
RECURSIVE InsertDesc(_, _, _)
\* x is placed after every element whose score is not below its own
InsertDesc(q, s, x) ==
    IF s = <<>> THEN <<x>>
    ELSE IF Greater(Score(q, x), Score(q, Head(s))) THEN <<x>> \o s
    ELSE <<Head(s)>> \o InsertDesc(q, Tail(s), x)
RECURSIVE SortDesc(_, _)
\* scored.sort_by(|a, b| b.0.partial_cmp(&a.0)...): a stable sort, highest
\* score first
SortDesc(q, s) ==
    IF s = <<>> THEN <<>>
    ELSE InsertDesc(q, SortDesc(q, SubSeq(s, 1, Len(s) - 1)), s[Len(s)])
\* .take(n)
Take(s, n) == SubSeq(s, 1, IF n < Len(s) THEN n ELSE Len(s))
\* variant: every fragment is a candidate, in insertion order
Candidates_Unfiltered(q, k) == Take([i \in 1..Len(fragments) |-> i], k * 2)
\* the rerank candidates, as fragment indices
Candidates(q, k) == Take(SortDesc(q, Filtered(q, Len(fragments))), k * 2)
\* .map(|(_, fragment)| fragment.content.clone())
ContentsOf(s) == [i \in 1..Len(s) |-> fragments[s[i]].content]
\* how reranker_agent.handle and the parse of its answer end
RerankOutcomes == {"Err", "Unparsable", "List"}
\* lists the rerank agent may answer with
RerankAnswers ==
    {<<>>} \cup {<<c>> : c \in {"a", "b"}}
           \cup {<<c, d>> : c \in {"a", "b"}, d \in {"a", "b"}}

SInit ==
    /\ similarity_threshold \in Thresholds
    /\ spc = "idle"
    /\ s_query = "a"
    /\ s_k = 0
    /\ s_qemb = EmptyVector
    /\ s_idx = <<>>
    /\ s_cands = <<>>
    /\ s_rerank = "none"
    /\ s_ret = "none"
    /\ s_results = <<>>
    /\ searches = 0

\* bookkeeping when search_memory returns
SearchReturns(r, res) ==
    /\ spc' = "done"
    /\ s_ret' = r
    /\ s_results' = res

\* search_memory up to the embedding: the blank check and cache.get
SearchBegin(q, k) ==
    /\ spc \in {"idle", "done"}
    /\ searches < MaxSearches
    /\ searches' = searches + 1
    /\ s_query' = q
    /\ s_k' = k
    /\ s_idx' = <<>>
    /\ s_cands' = <<>>
    /\ s_rerank' = "none"
    /\ IF q = ""
       THEN /\ SearchReturns("Ok", <<>>)
            /\ s_qemb' = EmptyVector
       ELSE IF CacheGet(q).some
       THEN /\ s_qemb' = CacheGet(q).vec
            /\ spc' = "scan"
            /\ s_ret' = "none"
            /\ s_results' = <<>>
       ELSE /\ s_qemb' = EmptyVector
            /\ spc' = "embed"
            /\ s_ret' = "none"
            /\ s_results' = <<>>
    /\ UNCHANGED similarity_threshold
    /\ UNCHANGED <<dvars, pvars, rvars, gvars, avars, tvars, mvars, jvars,
                   yvars>>

\* the cache miss: embedding_agent.handle, the parse of its answer and
\* cache.set; an empty vector is cached like any other
SearchEmbed(o, v) ==
    /\ spc = "embed"
    /\ embed_calls' = [embed_calls EXCEPT ![s_query] = Once(@)]
    /\ IF o = "Err"
       THEN /\ SearchReturns("EmbeddingFailed", <<>>)
            /\ UNCHANGED <<s_qemb, cache, returned>>
       ELSE IF o = "Unparsable"
       THEN /\ SearchReturns("ParseFailed", <<>>)
            /\ UNCHANGED <<s_qemb, cache, returned>>
       ELSE /\ cache' = CacheAfterSet(s_query, v)
            /\ returned' = FirstReturned(s_query, v)
            /\ s_qemb' = v
            /\ spc' = "scan"
            /\ UNCHANGED <<s_ret, s_results>>
    /\ UNCHANGED <<similarity_threshold, s_query, s_k, s_idx, s_cands,
                   s_rerank, searches>>
    /\ UNCHANGED <<max_fragments, fragments, clear_pc, mpc, m_content, m_vec,
                   m_ret, m_prev, m_invoked, m_cleared, last_add, inserted,
                   adds, cleared>>
    /\ UNCHANGED <<dvars, pvars, rvars, gvars, avars, tvars, jvars, yvars>>

\* the section from fragments.read() to the rerank call: score, filter,
\* sort, take; the read guard lives to the end of the function
SearchScan ==
    /\ spc = "scan"
    /\ clear_pc = "idle"
    /\ IF fragments = <<>> \/ Candidates(s_qemb, s_k) = <<>>
       THEN /\ SearchReturns("Ok", <<>>)
            /\ UNCHANGED <<s_idx, s_cands>>
       ELSE /\ s_idx' = Candidates(s_qemb, s_k)
            /\ s_cands' = ContentsOf(Candidates(s_qemb, s_k))
            /\ spc' = "rerank"
            /\ UNCHANGED <<s_ret, s_results>>
    /\ UNCHANGED <<similarity_threshold, s_query, s_k, s_qemb, s_rerank,
                   searches>>
    /\ UNCHANGED <<dvars, pvars, rvars, gvars, avars, tvars, mvars, jvars,
                   yvars>>

\* reranker_agent.handle(...).await?, the parse of its answer, take(top_k)
SearchRerank(o, r) ==
    /\ spc = "rerank"
    /\ s_rerank' = o
    /\ IF o = "Err" THEN SearchReturns("RerankFailed", <<>>)
       ELSE IF o = "Unparsable" THEN SearchReturns("RerankParseFailed", <<>>)
       ELSE SearchReturns("Ok", Take(r, s_k))
    /\ UNCHANGED <<similarity_threshold, s_query, s_k, s_qemb, s_idx, s_cands,
                   searches>>
    /\ UNCHANGED <<dvars, pvars, rvars, gvars, avars, tvars, mvars, jvars,
                   yvars>>

SNext ==
    \/ \E q \in Queries, k \in TopKs : SearchBegin(q, k)
    \/ \E o \in EmbeddingOutcomes, v \in Vectors \cup {EmptyVector} :
            SearchEmbed(o, v)
    \/ SearchScan
    \/ \E o \in RerankOutcomes, r \in RerankAnswers : SearchRerank(o, r)

\* search at rest
SQuiet == SInit /\ similarity_threshold = [num |-> 1, den |-> 100]

(* ---------------------------- Julia bridge ---------------------------- *)
\* calls of JuliaAgent::handle that may be in progress at the same time
BridgeCallers == {1, 2}
\* requests of one behaviour, numbered in the order handle is called
RequestIds == 1..MaxRequests
\* ALLOWED_JULIA_FUNCTIONS (two of the eight names)
ALLOWED_JULIA_FUNCTIONS == {"main", "predict"}
\* the "function" field of the input: absent or not a string, an allowed
\* name, or another name
FunctionFields == {"absent", "predict", "system"}
\* input.get("function").and_then(|v| v.as_str()).unwrap_or("main")
function_name(field) == IF field = "absent" THEN "main" ELSE field
\* JuliaTask: the function name and the reply channel of the request
JuliaTask(f, id) == [function_name |-> f, response |-> id]
NoTask == [function_name |-> "", response |-> 0]
\* how julia.scope ends for a task: a value, or a Julia exception (the
\* function is not defined, or its call raised)
ScopeOutcomes == {"Ok", "Exception"}

JInit ==
    /\ j_cap \in 1..QueueCapacity
    /\ jq = <<>>
    /\ j_wpc = "recv"
    /\ j_task = NoTask
    /\ j_outcome = "none"
    /\ j_log = <<>>
    /\ j_enqueued = {}
    /\ j_owner = [id \in RequestIds |-> 0]
    /\ reply = [id \in RequestIds |-> "none"]
    /\ submitted = 0
    /\ jpc = [k \in BridgeCallers |-> "idle"]
    /\ j_id = [k \in BridgeCallers |-> 0]
    /\ j_fn = [k \in BridgeCallers |-> ""]
    /\ j_ret = [k \in BridgeCallers |-> "none"]
    /\ j_full = [k \in BridgeCallers |-> FALSE]
    /\ j_down = [k \in BridgeCallers |-> FALSE]

\* variant: every function name passes
Allowed_Any(f) == TRUE

\* ALLOWED_JULIA_FUNCTIONS.contains(&function_name.as_str())
Allowed(f) == f \in ALLOWED_JULIA_FUNCTIONS

\* handle up to the send: the function name, the allowlist check, the
\* reply channel and the task
HandleBegin(k, field) ==
    /\ jpc[k] \in {"idle", "done"}
    /\ submitted < MaxRequests
    /\ submitted' = submitted + 1
    /\ j_id' = [j_id EXCEPT ![k] = submitted + 1]
    /\ j_owner' = [j_owner EXCEPT ![submitted + 1] = k]
    /\ j_fn' = [j_fn EXCEPT ![k] = function_name(field)]
    /\ IF ~Allowed(function_name(field))
       THEN /\ jpc' = [jpc EXCEPT ![k] = "done"]
            /\ j_ret' = [j_ret EXCEPT ![k] = "FunctionNotAllowed"]
            /\ j_full' = [j_full EXCEPT ![k] = FALSE]
            /\ j_down' = [j_down EXCEPT ![k] = FALSE]
            /\ reply' = reply
       ELSE /\ jpc' = [jpc EXCEPT ![k] = "send"]
            /\ j_ret' = [j_ret EXCEPT ![k] = "none"]
            /\ j_full' = [j_full EXCEPT ![k] =
                            j_wpc # "dead" /\ Len(jq) >= j_cap]
            /\ j_down' = [j_down EXCEPT ![k] = j_wpc = "dead"]
            /\ reply' = [reply EXCEPT ![submitted + 1] = "pending"]
    /\ UNCHANGED <<j_cap, jq, j_wpc, j_task, j_outcome, j_log, j_enqueued>>
    /\ UNCHANGED <<dvars, pvars, rvars, gvars, avars, tvars, mvars, svars,
                   yvars>>

\* variant: the task is enqueued whatever the queue holds
SendRoom_Always == TRUE

\* self.sender.send(task) finds a free slot in the channel
SendRoom == Len(jq) < j_cap

\* Ok(Ok(())): the task is enqueued
SendOk(k) ==
    /\ jpc[k] = "send"
    /\ j_wpc # "dead"
    /\ SendRoom
    /\ jq' = Append(jq, JuliaTask(j_fn[k], j_id[k]))
    /\ j_enqueued' = j_enqueued \cup {j_id[k]}
    /\ jpc' = [jpc EXCEPT ![k] = "wait"]
    /\ UNCHANGED <<j_cap, j_wpc, j_task, j_outcome, j_log, j_owner, reply,
                   submitted, j_id, j_fn, j_ret, j_full, j_down>>
    /\ UNCHANGED <<dvars, pvars, rvars, gvars, avars, tvars, mvars, svars,
                   yvars>>

\* Ok(Err(_)): the receiver is gone
SendClosed(k) ==
    /\ jpc[k] = "send"
    /\ j_wpc = "dead"
    /\ jpc' = [jpc EXCEPT ![k] = "done"]
    /\ j_ret' = [j_ret EXCEPT ![k] = "BridgeDown"]
    /\ UNCHANGED <<j_cap, jq, j_wpc, j_task, j_outcome, j_log, j_enqueued,
                   j_owner, reply, submitted, j_id, j_fn, j_full, j_down>>
    /\ UNCHANGED <<dvars, pvars, rvars, gvars, avars, tvars, mvars, svars,
                   yvars>>

\* Err(_): the five seconds of tokio::time::timeout elapse with the send
\* still pending; the send future is dropped with its task
SendTimeout(k) ==
    /\ jpc[k] = "send"
    /\ j_wpc # "dead"
    /\ ~SendRoom
    /\ jpc' = [jpc EXCEPT ![k] = "done"]
    /\ j_ret' = [j_ret EXCEPT ![k] = "BridgeBusy"]
    /\ reply' = [reply EXCEPT ![j_id[k]] = "none"]
    /\ UNCHANGED <<j_cap, jq, j_wpc, j_task, j_outcome, j_log, j_enqueued,
                   j_owner, submitted, j_id, j_fn, j_full, j_down>>
    /\ UNCHANGED <<dvars, pvars, rvars, gvars, avars, tvars, mvars, svars,
                   yvars>>

\* response_rx.await: the reply, or the error of a dropped reply sender
RecvReply(k) ==
    /\ jpc[k] = "wait"
    /\ reply[j_id[k]] \in {"Ok", "Exception", "dropped"}
    /\ jpc' = [jpc EXCEPT ![k] = "done"]
    /\ j_ret' = [j_ret EXCEPT ![k] =
                    IF reply[j_id[k]] = "Ok" THEN "Ok"
                    ELSE IF reply[j_id[k]] = "Exception" THEN "ExecutionError"
                    ELSE "BridgeDown"]
    /\ UNCHANGED <<j_cap, jq, j_wpc, j_task, j_outcome, j_log, j_enqueued,
                   j_owner, reply, submitted, j_id, j_fn, j_full, j_down>>
    /\ UNCHANGED <<dvars, pvars, rvars, gvars, avars, tvars, mvars, svars,
                   yvars>>

\* the future of handle is dropped by its caller (the dispatcher's timeout)
\* while it waits for the reply; the reply receiver goes with it
HandleDropped(k) ==
    /\ jpc[k] = "wait"
    /\ jpc' = [jpc EXCEPT ![k] = "done"]
    /\ j_ret' = [j_ret EXCEPT ![k] = "Dropped"]
    /\ reply' = [reply EXCEPT ![j_id[k]] = "closed"]
    /\ UNCHANGED <<j_cap, jq, j_wpc, j_task, j_outcome, j_log, j_enqueued,
                   j_owner, submitted, j_id, j_fn, j_full, j_down>>
    /\ UNCHANGED <<dvars, pvars, rvars, gvars, avars, tvars, mvars, svars,
                   yvars>>

\* variant: a task is taken while another is executed
WorkerFree_Always == j_wpc # "dead"

\* the worker thread is at rx.blocking_recv()
WorkerFree == j_wpc = "recv"

\* while let Some(task) = rx.blocking_recv(): the oldest task is taken and
\* julia.scope is entered with its function
WorkerRecv ==
    /\ WorkerFree
    /\ jq # <<>>
    /\ j_task' = Head(jq)
    /\ jq' = Tail(jq)
    /\ j_wpc' = "exec"
    /\ j_log' = Append(j_log, Head(jq))
    /\ j_outcome' = "none"
    /\ j_full' = [k \in BridgeCallers |-> FALSE]
    /\ UNCHANGED <<j_cap, j_enqueued, j_owner, reply, submitted, jpc, j_id,
                   j_fn, j_ret, j_down>>
    /\ UNCHANGED <<dvars, pvars, rvars, gvars, avars, tvars, mvars, svars,
                   yvars>>

\* variant: a Julia exception ends the worker loop
WorkerAfterScope_Stop(o) == IF o = "Exception" THEN "dead" ELSE "recv"

\* both arms of match result lead to task.response.send and the next
\* iteration of the loop
WorkerAfterScope(o) == "recv"

\* julia.scope returns and task.response.send(response) is called; a send
\* to a reply channel whose receiver is gone is only logged
WorkerReply(o) ==
    /\ j_wpc = "exec"
    /\ j_wpc' = WorkerAfterScope(o)
    /\ j_task' = NoTask
    /\ j_outcome' = o
    /\ reply' = [reply EXCEPT ![j_task.response] =
                    IF @ = "pending" THEN o ELSE @]
    /\ UNCHANGED <<j_cap, jq, j_log, j_enqueued, j_owner, submitted, jpc,
                   j_id, j_fn, j_ret, j_full, j_down>>
    /\ UNCHANGED <<dvars, pvars, rvars, gvars, avars, tvars, mvars, svars,
                   yvars>>

\* variant: the task in hand keeps its reply sender
DroppedWithWorker_QueueOnly(id) ==
    \E i \in 1..Len(jq) : jq[i].response = id

\* the tasks dropped when the worker thread unwinds: the one in hand and
\* those still in the channel
DroppedWithWorker(id) ==
    \/ id = j_task.response
    \/ \E i \in 1..Len(jq) : jq[i].response = id

\* the worker thread unwinds: rx is dropped, which closes the channel and
\* drops the queued tasks, and the task in hand is dropped; every reply
\* sender they hold is dropped with them
WorkerDies ==
    /\ j_wpc # "dead"
    /\ j_wpc' = "dead"
    /\ jq' = <<>>
    /\ j_task' = NoTask
    /\ reply' = [id \in RequestIds |->
                    IF reply[id] = "pending" /\ DroppedWithWorker(id)
                    THEN "dropped" ELSE reply[id]]
    /\ j_full' = [k \in BridgeCallers |-> FALSE]
    /\ j_down' = [k \in BridgeCallers |->
                    \/ jpc[k] = "send"
                    \/ (jpc[k] = "wait" /\ reply[j_id[k]] = "pending")
                    \/ j_down[k]]
    /\ UNCHANGED <<j_cap, j_outcome, j_log, j_enqueued, j_owner, submitted,
                   jpc, j_id, j_fn, j_ret>>
    /\ UNCHANGED <<dvars, pvars, rvars, gvars, avars, tvars, mvars, svars,
                   yvars>>

JNext ==
    \/ \E k \in BridgeCallers, field \in FunctionFields : HandleBegin(k, field)
    \/ \E k \in BridgeCallers : SendOk(k)
    \/ \E k \in BridgeCallers : SendClosed(k)
    \/ \E k \in BridgeCallers : SendTimeout(k)
    \/ \E k \in BridgeCallers : RecvReply(k)
    \/ \E k \in BridgeCallers : HandleDropped(k)
    \/ WorkerRecv
    \/ \E o \in ScopeOutcomes : WorkerReply(o)
    \/ WorkerDies

(* ----------------------- bridge initialisation ----------------------- *)
\* the model files of the for loop, in its order
MODEL_PATHS == <<"models/julia/causal_model.jl", "models/julia/ltn_logic.jl">>
ModelPaths == {MODEL_PATHS[i] : i \in 1..Len(MODEL_PATHS)}

\* RuntimeBuilder::new().start()
RuntimeOutcomes == {"Ok", "Err"}
\* include.call1(..)
IncludeOutcomes == {"Ok", "Exception"}

IInit ==
    /\ script_allowlist_hashes
         \in [ModelPaths -> {NoHash} \cup {Sha256(c) : c \in Contents}]
    /\ scripts \in [ModelPaths -> {NoFile} \cup Contents]
    /\ ipc = "runtime"
    /\ i_idx = 1
    /\ i_status = [p \in ModelPaths |-> "none"]
    /\ i_included = [p \in ModelPaths |-> NoFile]
    /\ i_writes = 0

\* allowlist.is_empty()
AllowlistIsEmpty == \A p \in ModelPaths : script_allowlist_hashes[p] = NoHash

\* validate_model_integrity(path, allowlist) returns Ok(())
ValidateModelIntegrity(path) ==
    \/ AllowlistIsEmpty
    \/ /\ script_allowlist_hashes[path] # NoHash
       /\ scripts[path] # NoFile
       /\ Sha256(scripts[path]) = script_allowlist_hashes[path]

\* the for loop moves on to the next model_path, or the scope ends
NextModel(st) ==
    /\ i_status' = [i_status EXCEPT ![MODEL_PATHS[i_idx]] = st]
    /\ IF i_idx < Len(MODEL_PATHS)
       THEN i_idx' = i_idx + 1 /\ ipc' = "exists"
       ELSE i_idx' = i_idx /\ ipc' = "serve"

\* the worker thread starts the interpreter; on Err it returns and
\* init_julia returns the error
StartRuntime(o) ==
    /\ ipc = "runtime"
    /\ ipc' = IF o = "Ok" THEN "exists" ELSE "failed"
    /\ UNCHANGED <<script_allowlist_hashes, scripts, i_idx, i_status,
                   i_included, i_writes>>
    /\ UNCHANGED <<zvars, uvars, cvars, qvars>>

\* std::path::Path::new(model_path).exists()
ModuleExists ==
    /\ ipc = "exists"
    /\ IF scripts[MODEL_PATHS[i_idx]] = NoFile
       THEN NextModel("absent")
       ELSE ipc' = "validate" /\ UNCHANGED <<i_idx, i_status>>
    /\ UNCHANGED <<script_allowlist_hashes, scripts, i_included, i_writes>>
    /\ UNCHANGED <<zvars, uvars, cvars, qvars>>

\* validate_model_integrity: Err is logged and the loop continues
ValidateModel ==
    /\ ipc = "validate"
    /\ IF ValidateModelIntegrity(MODEL_PATHS[i_idx])
       THEN ipc' = "include" /\ UNCHANGED <<i_idx, i_status>>
       ELSE NextModel("skipped")
    /\ UNCHANGED <<script_allowlist_hashes, scripts, i_included, i_writes>>
    /\ UNCHANGED <<zvars, uvars, cvars, qvars>>

\* include.call1(model_path)?: the interpreter opens the path and evaluates
\* what is there now; an error ends the scope and the rest of the loop
IncludeModule(o) ==
    /\ ipc = "include"
    /\ IF o = "Ok" /\ scripts[MODEL_PATHS[i_idx]] # NoFile
       THEN /\ i_included' = [i_included EXCEPT ![MODEL_PATHS[i_idx]] =
                                          scripts[MODEL_PATHS[i_idx]]]
            /\ NextModel("loaded")
       ELSE /\ i_status' = [i_status EXCEPT ![MODEL_PATHS[i_idx]] = "failed"]
            /\ ipc' = "serve"
            /\ UNCHANGED <<i_idx, i_included>>
    /\ UNCHANGED <<script_allowlist_hashes, scripts, i_writes>>
    /\ UNCHANGED <<zvars, uvars, cvars, qvars>>

\* another process replaces or removes a model file
WriteScript(p, c) ==
    /\ i_writes < 1
    /\ scripts[p] # c
    /\ scripts' = [scripts EXCEPT ![p] = c]
    /\ i_writes' = i_writes + 1
    /\ UNCHANGED <<script_allowlist_hashes, ipc, i_idx, i_status, i_included>>
    /\ UNCHANGED <<zvars, uvars, cvars, qvars>>

INext ==
    \/ \E o \in RuntimeOutcomes : StartRuntime(o)
    \/ ModuleExists
    \/ ValidateModel
    \/ \E o \in IncludeOutcomes : IncludeModule(o)
    \/ \E p \in ModelPaths, c \in {NoFile} \cup Contents : WriteScript(p, c)

\* the bridge past its initialisation, with no model files
IQuiet ==
    /\ IInit
    /\ AllowlistIsEmpty
    /\ scripts = [p \in ModelPaths |-> NoFile]

\* start-up, user management and the watched quarantine at rest
YQuiet == IQuiet /\ UQuiet /\ CQuiet /\ QInit

\* the bridge at rest
JQuiet == JInit /\ j_cap = QueueCapacity

\* the fragment store at rest
MQuiet == MInit /\ max_fragments = MaxFragments

\* the loader at rest with the default policy, for the dispatcher runs
PQuiet ==
    /\ PInit
    /\ require_signatures
    /\ allowed_hashes = {}
    /\ max_plugin_size = NumContents
    /\ fs = [p \in Paths |-> 1]

\* the dispatcher at rest, for the loader runs
DQuiet == DInit /\ max_concurrent_tasks = 1

Init ==
    DInit /\ PQuiet /\ RInit /\ GInit /\ AQuiet /\ TQuiet /\ MQuiet /\ SQuiet
    /\ JQuiet /\ YQuiet
Next == DNext
Spec == Init /\ [][Next]_vars

PluginInit ==
    DQuiet /\ PInit /\ RInit /\ GInit /\ AQuiet /\ TQuiet /\ MQuiet /\ SQuiet
    /\ JQuiet /\ YQuiet
PluginNext == PNext
PluginSpec == PluginInit /\ [][PluginNext]_vars

RegistryInit ==
    DQuiet /\ PQuiet /\ RInit /\ GInit /\ AQuiet /\ TQuiet /\ MQuiet /\ SQuiet
    /\ JQuiet /\ YQuiet
RegistryNext == GNext
RegistrySpec == RegistryInit /\ [][RegistryNext]_vars

AuthInit ==
    DQuiet /\ PQuiet /\ RInit /\ GInit /\ AInit /\ TQuiet /\ MQuiet /\ SQuiet
    /\ JQuiet /\ YQuiet
AuthNext == ANext
AuthSpec == AuthInit /\ [][AuthNext]_vars

TokenInit ==
    DQuiet /\ PQuiet /\ RInit /\ GInit /\ AQuiet /\ TInit /\ MQuiet /\ SQuiet
    /\ JQuiet /\ YQuiet
TokenNext == TNext
TokenSpec == TokenInit /\ [][TokenNext]_vars

\* time passes; nothing in the token service runs unless it is called
FairTokenSpec == TokenInit /\ [][TokenNext]_vars /\ WF_vars(ClockTick)

MemoryInit ==
    DQuiet /\ PQuiet /\ RInit /\ GInit /\ AQuiet /\ TQuiet /\ MInit /\ SQuiet
    /\ JQuiet /\ YQuiet
MemoryNext == MNext
MemorySpec == MemoryInit /\ [][MemoryNext]_vars

\* one add_memory caller and one search_memory caller
SearchInit ==
    DQuiet /\ PQuiet /\ RInit /\ GInit /\ AQuiet /\ TQuiet /\ MQuiet /\ SInit
    /\ JQuiet /\ YQuiet
SearchNext ==
    \/ \E c \in MemContents : AddBegin(1, c)
    \/ \E o \in EmbeddingOutcomes, v \in Vectors \cup {EmptyVector} :
            AddEmbed(1, o, v)
    \/ AddStore(1)
    \/ SNext
SearchSpec == SearchInit /\ [][SearchNext]_vars

BridgeInit ==
    DQuiet /\ PQuiet /\ RInit /\ GInit /\ AQuiet /\ TQuiet /\ MQuiet /\ SQuiet
    /\ JInit /\ YQuiet
BridgeNext == JNext
BridgeSpec == BridgeInit /\ [][BridgeNext]_vars

JuliaInitInit ==
    DQuiet /\ PQuiet /\ RInit /\ GInit /\ AQuiet /\ TQuiet /\ MQuiet /\ SQuiet
    /\ JQuiet /\ IInit /\ UQuiet /\ CQuiet /\ QInit
JuliaInitNext == INext
JuliaInitSpec == JuliaInitInit /\ [][JuliaInitNext]_vars

\* initialize_admin calls on a table with or without an admin row
AdminInit ==
    DQuiet /\ PQuiet /\ RInit /\ GInit /\ AQuiet /\ TQuiet /\ MQuiet /\ SQuiet
    /\ JQuiet /\ IQuiet /\ UInit /\ CQuiet /\ QInit
AdminNext ==
    \/ \E k \in UserCallers, u \in ManagedUsers : InitializeAdmin(k, u)
    \/ \E k \in UserCallers : HasAdmin(k)
    \/ \E k \in UserCallers : AddUserInsert(k)
    \/ \E k \in UserCallers : UserCallCache(k)
AdminSpec == AdminInit /\ [][AdminNext]_vars

\* disable_user and update_password calls and one authenticate caller who
\* presents the right password, on the fixture's table
AccountInit ==
    DQuiet /\ PQuiet /\ RInit /\ GInit /\ AQuiet /\ TQuiet /\ MQuiet /\ SQuiet
    /\ JQuiet /\ IQuiet /\ UInit /\ users = FixtureUsers /\ CQuiet /\ QInit
AccountNext ==
    \/ \E k \in UserCallers, u \in ManagedUsers :
            UpdateCall(k, "disable_user", u)
    \/ \E k \in UserCallers, u \in ManagedUsers :
            UpdateCall(k, "update_password", u)
    \/ \E k \in UserCallers : GetUserFetched(k)
    \/ \E k \in UserCallers : UpdateUserRow(k)
    \/ \E k \in UserCallers : UserCallCache(k)
    \/ \E u \in ManagedUsers : AuthBegin(1, u, "good")
    \/ AuthFetched(1)
    \/ AuthCheckLock(1)
    \/ AuthVerify(1)
AccountSpec == AccountInit /\ [][AccountNext]_vars

\* a call of handle that can take a step, or the worker thread when it can,
\* takes one in the end; the worker thread need not die, and a caller need
\* not make or drop a call
BridgeProgress ==
    \/ \E k \in BridgeCallers :
            SendOk(k) \/ SendClosed(k) \/ SendTimeout(k) \/ RecvReply(k)
    \/ WorkerRecv
    \/ \E o \in ScopeOutcomes : WorkerReply(o)
FairBridgeSpec ==
    BridgeInit /\ [][BridgeNext]_vars /\ WF_vars(BridgeProgress)

ReloadInit ==
    /\ DQuiet
    /\ PInit
    /\ max_plugin_size = NumContents
    /\ fs["plug.txt"] = 1
    /\ RInit
    /\ GInit
    /\ AQuiet
    /\ TQuiet
    /\ MQuiet
    /\ SQuiet
    /\ JQuiet /\ YQuiet
ReloadNext == RNext
ReloadSpec == ReloadInit /\ [][ReloadNext]_vars

\* the hot-reload loop with the watcher's events for <dir>/quarantine
QuarantineInit == ReloadInit
QuarantineNext == RNext \/ QNext
QuarantineSpec == QuarantineInit /\ [][QuarantineNext]_vars

\* start-up from any configuration, then the service's plugin loads
StartupInit ==
    /\ DQuiet
    /\ PInit
    /\ RInit
    /\ GInit
    /\ AQuiet
    /\ TQuiet
    /\ MQuiet
    /\ SQuiet
    /\ JQuiet
    /\ IQuiet /\ UQuiet /\ CInit /\ QInit
StartupNext ==
    \/ SettingsLoad
    \/ Serve
    \/ \E p \in Paths : ServiceLoad(p)
    \/ LoadMetadata
    \/ LoadRead
    \/ LoadQuarantine
    \/ \E o \in {"Loaded", "LoadFailed", "MissingSymbol"} : LoadMap(o)
StartupSpec == StartupInit /\ [][StartupNext]_vars

\* one dispatch call racing with the hot-reload loop, signatures not required
HotSwapInit ==
    /\ DQuiet
    /\ PInit
    /\ ~require_signatures
    /\ allowed_hashes = {}
    /\ max_plugin_size = NumContents
    /\ fs = [p \in Paths |-> 1]
    /\ RInit
    /\ GInit
    /\ AQuiet
    /\ TQuiet
    /\ MQuiet
    /\ SQuiet
    /\ JQuiet /\ YQuiet

HotSwapNext ==
    \/ \E p \in Paths, c \in Contents : FileModified(p, c)
    \/ WatchModify
    \/ ReloadRecv
    \/ ViolationRecv
    \/ LoadMetadata
    \/ LoadRead
    \/ \E o \in {"Loaded", "LoadFailed", "MissingSymbol"} : LoadMap(o)
    \/ ReloadLoaded
    \/ \E io \in InstantiateOutcomes, n \in Names : ReloadInstantiate(io, n)
    \/ ReloadInsert
    \/ \E n \in Names, i \in Inputs : Dispatch(1, n, i)
    \/ Lookup(1)
    \/ SendUnknown(1)
    \/ \E r \in HandlerResults : HandlerReturns(1, r)
    \/ TimeoutFires(1)
    \/ SendResponse(1)

HotSwapSpec == HotSwapInit /\ [][HotSwapNext]_vars

\* The runtime polls every dispatch future that can make progress and the
\* timer of tokio::time::timeout fires; handlers and callers owe nothing.
DFairness ==
    \A t \in Tasks :
        /\ WF_vars(SendQueueFull(t))
        /\ WF_vars(Lookup(t))
        /\ WF_vars(SendUnknown(t))
        /\ WF_vars(TimeoutFires(t))
        /\ WF_vars(SendResponse(t))

FairSpec == Init /\ [][Next]_vars /\ DFairness

(* ------------------------------ claims -------------------------------- *)
\* everything the caller's receiver has been handed or can still take
Delivered(t) == received[t] \o chan[t]
Running == {t \in Tasks : pc[t] = "handle"}

\* C1: every dispatch call makes exactly one send on the task's reply
\* channel, on every path: never a second one, never none once it has
\* returned, and a receiver that is still held sees exactly that response.
C1_ExactlyOneResponse ==
    \A t \in Tasks :
        /\ sends[t] <= 1
        /\ Len(Delivered(t)) <= sends[t]
        /\ pc[t] = "done" => sends[t] = 1
        /\ (pc[t] = "done" /\ rx_open[t]) => Delivered(t) = <<response[t]>>

C1_Witness ==
    \E t, u \in Tasks :
        /\ pc[t] = "done" /\ received[t] = <<QueueFullError>>
        /\ pc[u] = "done" /\ Len(received[u]) = 1 /\ received[u][1].ok

\* C2: the number of handlers running at any moment is at most
\* max_concurrent_tasks.
C2_BoundedConcurrency == Cardinality(Running) <= max_concurrent_tasks

C2_Witness ==
    /\ max_concurrent_tasks = 1
    /\ \E t, u \in Tasks :
        /\ pc[t] = "handle"
        /\ pc[u] = "done" /\ response[u] = QueueFullError

\* C3: a call made while no permit is available does not wait: it goes
\* straight to sending QueueFull, takes no permit, never looks up or invokes
\* a handler, and returns after the send.
C3_QueueFullRejects ==
    /\ [][\A t \in Tasks :
            (pc[t] = "idle" /\ pc'[t] # "idle" /\ permits = 0)
                => /\ pc'[t] = "send_full"
                   /\ response'[t] = QueueFullError
                   /\ ~permit'[t]
                   /\ permits' = 0]_vars
    /\ [](\A t \in Tasks :
            pc[t] = "send_full" \/ response[t] = QueueFullError
                => /\ pc[t] \in {"send_full", "done"}
                   /\ response[t] = QueueFullError
                   /\ agent[t] = NoAgent
                   /\ handler_result[t] = NoHandlerResult
                   /\ ~permit[t]
                   /\ pc[t] = "done" => (ret[t] = "Ok" /\ sends[t] = 1)
                   /\ (pc[t] = "done" /\ rx_open[t])
                        => Delivered(t) = <<QueueFullError>>)

C3_Witness ==
    \E t \in Tasks :
        /\ pc[t] = "done"
        /\ received[t] = <<QueueFullError>>
        /\ permits = 0

\* C4: for an admitted task whose agent was found, the response is Ok with
\* the string the handler returned, HandlerFailed with the handler's error,
\* or Timeout when the deadline fired while the handler was still pending.
C4_ResponseMatchesOutcome ==
    \A t \in Tasks :
        (agent[t] # NoAgent /\ pc[t] \in {"send_response", "done"})
            => /\ (handler_result[t].ok
                    => response[t] = [ok |-> TRUE, tag |-> "String",
                                      arg |-> handler_result[t].s])
               /\ (handler_result[t] \in [ok : {FALSE}, s : HandlerErrors]
                    => response[t] = [ok |-> FALSE, tag |-> "HandlerFailed",
                                      arg |-> handler_result[t].s])
               /\ (handler_result[t] = NoHandlerResult
                    => response[t] = [ok |-> FALSE, tag |-> "Timeout",
                                      arg |-> ""])
               /\ (pc[t] = "done" /\ rx_open[t])
                    => Delivered(t) = <<response[t]>>

C4_Witness ==
    \E t, u \in Tasks :
        /\ received[t] = <<[ok |-> TRUE, tag |-> "String", arg |-> "out_b"]>>
        /\ handler_result[t] = [ok |-> TRUE, s |-> "out_b"]
        /\ received[u] = <<[ok |-> FALSE, tag |-> "HandlerFailed",
                            arg |-> "boom"]>>

\* C5: no call holds its permit forever (each call is again and again
\* without one), also when the handler never completes and when the caller
\* never reads; the available permits are always max_concurrent_tasks minus
\* the permits held, and once every call has returned all
\* max_concurrent_tasks permits are available again.
C5_PermitsReleased ==
    /\ \A t \in Tasks : []<>(~permit[t])
    /\ [](permits = max_concurrent_tasks
                      - Cardinality({t \in Tasks : permit[t]}))
    /\ []((\A t \in Tasks : pc[t] \in {"idle", "done"})
            => permits = max_concurrent_tasks)

C5_Witness ==
    /\ \A t \in Tasks : pc[t] = "done"
    /\ \E t \in Tasks : response[t] = TimeoutError /\ chan[t] # <<>>
    /\ \E t \in Tasks : response[t].tag = "UnknownAgent"
    /\ permits = max_concurrent_tasks

\* C6 as stated: a task whose agent name has never been registered is
\* answered UnknownAgent(name) and no handler is invoked.
C6_Original ==
    \A t \in Tasks :
        (pc[t] = "done" /\ task_name[t] \notin ever_registered)
            => /\ response[t] = [ok |-> FALSE, tag |-> "UnknownAgent",
                                 arg |-> task_name[t]]
               /\ agent[t] = NoAgent

\* C6 (amended): an admitted task (one that obtained a permit) whose name is
\* not in the registry at lookup is answered UnknownAgent(name), and no
\* handler is invoked for it.
C6_UnknownAgentWhenAdmitted ==
    /\ [][\A t \in Tasks :
            (pc[t] = "lookup" /\ pc'[t] # "lookup"
                /\ agents[task_name[t]] = NoAgent)
                => /\ pc'[t] = "send_unknown"
                   /\ response'[t] = [ok |-> FALSE, tag |-> "UnknownAgent",
                                      arg |-> task_name[t]]]_vars
    /\ [](\A t \in Tasks :
            pc[t] = "send_unknown" \/ response[t].tag = "UnknownAgent"
                => /\ pc[t] \in {"send_unknown", "done"}
                   /\ response[t] = [ok |-> FALSE, tag |-> "UnknownAgent",
                                     arg |-> task_name[t]]
                   /\ agent[t] = NoAgent
                   /\ handler_result[t] = NoHandlerResult
                   /\ (pc[t] = "done" /\ rx_open[t])
                        => Delivered(t) = <<response[t]>>)

C6_Witness ==
    \E t \in Tasks :
        /\ pc[t] = "done"
        /\ task_name[t] = "missing"
        /\ received[t] = <<[ok |-> FALSE, tag |-> "UnknownAgent",
                            arg |-> "missing"]>>

\* C7: a call whose receiver the caller has dropped (and a dropped receiver
\* stays dropped) still reaches its end; an invoked handler ran to its result
\* or to the deadline; the failed send is discarded (dispatch returns Ok)
\* and the permit is given back.
C7_DroppedReceiver ==
    /\ \A t \in Tasks : []<>(rx_open[t] \/ pc[t] = "done")
    /\ [](\A t \in Tasks :
            (pc[t] = "done" /\ send_result[t] = "Err")
                => /\ ret[t] = "Ok"
                   /\ ~permit[t]
                   /\ sends[t] = 1
                   /\ Delivered(t) = <<>>
                   /\ agent[t] # NoAgent
                        => (handler_result[t] \in HandlerResults
                            \/ response[t] = TimeoutError))

C7_Witness ==
    \E t \in Tasks :
        /\ pc[t] = "done"
        /\ send_result[t] = "Err"
        /\ handler_result[t].ok
        /\ permits = max_concurrent_tasks

\* C8: with signatures required, every content the loader has mapped into
\* the process has a digest in the allowlist, whatever is written to the
\* path while load runs.
C8_MappedOnlyAllowlisted ==
    require_signatures => \A c \in mapped : Sha256(c) \in allowed_hashes

C10_Original ==
    (lpc = "done" /\ l_rerun /\ lpath \in quarantined_from)
        => lresult = "NotAllowlisted"

\* C10 (amended): such a load fails at the metadata step, because the path
\* no longer exists, and maps nothing.
C10_RerunFailsBeforeMapping ==
    (lpc = "done" /\ l_rerun /\ lpath \in quarantined_from)
        => /\ lresult = "MetadataFailed"
           /\ ~l_mapped
           /\ file_content = NoFile

C10_Witness ==
    /\ lpc = "done"
    /\ l_rerun
    /\ lpath \in quarantined_from
    /\ lresult = "MetadataFailed"
    /\ quarantine # {}

\* the Library handles that are alive: the one the reload loop's Plugin holds
LiveLibraries == IF lib = 0 THEN {} ELSE {lib}

\* C11: the library of every plugin agent that is registered, or that a
\* dispatch call has cloned from the registry, is kept alive.
C11_LibraryOutlivesAgent ==
    /\ \A n \in Names :
        agents[n].kind = "plugin" => agents[n].lib \in LiveLibraries
    /\ \A t \in Tasks :
        agent[t].kind = "plugin" => agent[t].lib \in LiveLibraries

\* C12: a reload never takes a registered name out of the registry, not even
\* for a moment, and a dispatch call for a name that was registered when
\* the reload began finds the old agent or the new one: it is never answered
\* UnknownAgent.
C12_AtomicReplace ==
    /\ [][\A n \in Names : agents[n] # NoAgent => agents'[n] # NoAgent]_vars
    /\ [](\A t \in Tasks :
            (pc[t] # "idle" /\ task_name[t] = "echo")
                => /\ pc[t] # "send_unknown"
                   /\ response[t].tag # "UnknownAgent"
                   /\ agent[t] # NoAgent
                        => (agent[t] = BuiltinAgent
                            \/ agent[t] = agents["echo"]
                            \/ agent[t].kind = "plugin"))

C12_Witness ==
    \E t \in Tasks :
        /\ pc[t] = "done"
        /\ task_name[t] = "echo"
        /\ agent[t] = BuiltinAgent
        /\ agents["echo"].kind = "plugin"
        /\ response[t].ok

\* C13: register_agent on a name that is in the registry returns
\* AlreadyRegistered, remove_agent on a name that is not returns NotFound,
\* and in both cases the registry is left as it was.
C13_RegistryErrors ==
    /\ (reg_call.op = "register" /\ reg_call.before[reg_call.name] # NoAgent)
        => (reg_call.ret = "AlreadyRegistered" /\ agents = reg_call.before)
    /\ (reg_call.op = "remove" /\ reg_call.before[reg_call.name] = NoAgent)
        => (reg_call.ret = "NotFound" /\ agents = reg_call.before)

\* C14: once the reload loop has handled a load that the hash check
\* rejected (and that quarantined the file), a SecurityViolation event for
\* the file's path has been sent on the plugin event bus.
C14_HashFailureEmitsViolation ==
    (rpc = "recv" /\ reload_log = "load_failed"
        /\ lresult = "NotAllowlisted")
        => lpath \in violations

\* C15: validate_token returns the claims exactly when the token's
\* signature verifies, the time of the call is before the token's expiry and
\* revoke_token has not succeeded for the token; so a revoked token is never
\* accepted again.
C15_ValidateIff ==
    tok_call.op = "validate"
        => (tok_call.ret = "Ok"
            <=> /\ tok_call.token.sig = "valid"
                /\ tok_call.at < tok_call.token.exp
                /\ tok_call.token \notin revoked)

\* C16: a validate_token call made on a revoked token before the token's
\* expiry returns Revoked, and the blacklist does not keep entries of tokens
\* whose expiry has passed: it is again and again free of them.
C16_RevokedUntilExpiryThenEvicted ==
    /\ []((tok_call.op = "validate" /\ tok_call.token \in revoked
            /\ tok_call.at < tok_call.token.exp)
            => tok_call.ret = "Token has been revoked")
    /\ []<>(\A t \in token_blacklist : t.exp > clock)

\* C17: a call made inside the lockout window that the user's
\* max_login_attempts-th consecutive failure opened, and completing inside
\* it, returns Locked whatever its password; a call with the correct password
\* made outside every window returns a token.
C17_LockedForDuration ==
    [][\A k \in AuthCallers :
        (apc[k] # "done" /\ apc'[k] = "done")
            => /\ (a_until'[k] >= 0 /\ clock < a_until'[k])
                    => a_ret'[k] = "Account temporarily locked"
               /\ (a_until'[k] = NoLock /\ a_user'[k] \in ActiveUsers
                    /\ VerifyPassword(a_user'[k], a_pw'[k]))
                    => a_ret'[k] = "Token"]_vars

\* C18: the step in which authenticate succeeds leaves the user's entry at
\* zero failures and no lockout; the counter always equals the number of
\* failures since the user's last success, and a lockout is set only when
\* that number has reached max_login_attempts.
C18_SuccessResetsCounter ==
    /\ [][\A k \in AuthCallers :
            (apc[k] # "done" /\ apc'[k] = "done" /\ a_ret'[k] = "Token")
                => login_attempts'[a_user[k]] = NoAttempts]_vars
    /\ [](\A u \in Users : login_attempts[u].count = consec[u])
    /\ [][\A u \in Users :
            (login_attempts'[u].until # login_attempts[u].until
                /\ login_attempts'[u].until # NoLock)
                => consec'[u] >= max_login_attempts]_vars

C18_Witness ==
    /\ max_login_attempts = 2
    /\ \E j, k \in AuthCallers :
        /\ apc[j] = "done" /\ a_user[j] = "alice"
        /\ a_ret[j] = "Invalid credentials"
        /\ apc[k] = "done" /\ a_user[k] = "alice" /\ a_ret[k] = "Token"
        /\ login_attempts["alice"] = NoAttempts
        /\ consec["alice"] = 0

\* C19: authenticate answers "Invalid credentials" alike for a username
\* without a row, for a disabled user, and for an active user with a wrong
\* password.
C19_SameFailureOutcome ==
    \A k \in AuthCallers :
        (apc[k] = "done"
            /\ (a_user[k] \notin UserRows \/ a_user[k] \notin ActiveUsers
                \/ (~VerifyPassword(a_user[k], a_pw[k])
                    /\ a_ret[k] # "Account temporarily locked")))
            => a_ret[k] = "Invalid credentials"

\* C20: whatever add_memory and clear calls have run or are running, and
\* whatever max_fragments is, the store never holds more than max_fragments
\* fragments.
C20_FragmentBound == Len(fragments) <= max_fragments

C20_Witness ==
    /\ max_fragments = 1
    /\ ~cleared
    /\ \A k \in MemCallers : mpc[k] = "done" /\ m_ret[k] = "Ok"
    /\ Len(fragments) = 1
    /\ adds >= 2

C23_FailureLeavesFragments ==
    [][/\ \A k \in MemCallers :
            (mpc[k] # "done" /\ mpc'[k] = "done" /\ m_ret'[k] # "Ok")
                => fragments' = fragments
       /\ (spc # "done" /\ spc' = "done" /\ s_ret' # "Ok")
                => fragments' = fragments
       /\ fragments' # fragments =>
            \/ \E k \in MemCallers :
                    mpc[k] = "store" /\ mpc'[k] = "done" /\ m_ret'[k] = "Ok"
            \/ clear_pc = "idle" /\ clear_pc' = "cache"]_vars

C23_Witness ==
    /\ fragments # <<>>
    /\ mpc[1] = "done" /\ m_ret[1] = "EmbeddingFailed"
    /\ spc = "done" /\ s_ret = "RerankFailed"

\* C24: a search whose rerank agent failed, having at least one candidate,
\* returns Ok with the candidates in similarity order, cut to top_k.
C24_RerankFallback ==
    (spc = "done" /\ s_rerank = "Err" /\ s_cands # <<>>)
        => (s_ret = "Ok" /\ s_results = Take(s_cands, s_k))

C26_SerialFifo ==
    /\ [](/\ (j_task # NoTask <=> j_wpc = "exec")
          /\ \A i, j \in 1..Len(j_log) :
                (i < j /\ j_owner[j_log[i].response]
                            = j_owner[j_log[j].response])
                    => j_log[i].response < j_log[j].response)
    /\ [][j_task # NoTask => j_task' \in {j_task, NoTask}]_vars

C26_Witness ==
    /\ Len(j_log) = 2
    /\ j_owner[j_log[1].response] = j_owner[j_log[2].response]
    /\ j_log[1].response < j_log[2].response
    /\ reply[j_log[1].response] = "closed"
    /\ j_wpc = "exec"

\* C27: the channel never holds more tasks than its bound; a call that
\* ended BridgeBusy never had its task in the channel or in the worker's
\* hands; and a call whose send is over while the channel was full ever
\* since the send started ended BridgeBusy.
C27_SendTimeout ==
    /\ Len(jq) <= j_cap
    /\ \A k \in BridgeCallers :
          (jpc[k] = "done" /\ j_ret[k] = "BridgeBusy") =>
             /\ j_id[k] \notin j_enqueued
             /\ \A i \in 1..Len(jq) : jq[i].response # j_id[k]
             /\ \A i \in 1..Len(j_log) : j_log[i].response # j_id[k]
             /\ j_task.response # j_id[k]
    /\ \A k \in BridgeCallers :
          (jpc[k] \in {"wait", "done"} /\ j_full[k])
              => j_ret[k] = "BridgeBusy"

C27_Witness ==
    \E k \in BridgeCallers :
        /\ jpc[k] = "done" /\ j_ret[k] = "BridgeBusy"
        /\ j_full[k]
        /\ Len(jq) = j_cap
        /\ j_cap = 1

\* C28: a call for an allowed function that was sending its task or
\* waiting for its reply when the worker thread died, or that was made after
\* it died, ends BridgeDown unless its caller dropped it; and with the
\* worker thread dead no call stays in progress for ever.
C28_BridgeDown ==
    /\ [](\A k \in BridgeCallers :
            (jpc[k] = "done" /\ j_down[k])
                => j_ret[k] \in {"BridgeDown", "Dropped"})
    /\ []<>(j_wpc = "dead" =>
                \A k \in BridgeCallers : jpc[k] \notin {"send", "wait"})

C28_Witness ==
    /\ j_wpc = "dead"
    /\ \A k \in BridgeCallers :
          jpc[k] = "done" /\ j_down[k] /\ j_ret[k] = "BridgeDown"
    /\ \E k \in BridgeCallers : j_id[k] \in j_enqueued
    /\ \E k \in BridgeCallers : j_id[k] \notin j_enqueued

\* C29: the step in which julia.scope ends with an exception leaves the
\* worker thread at the head of its loop and the channel as it was, puts
\* the error into the reply channel of the task in hand (or nowhere, if its
\* receiver is gone) and touches no other reply channel.
C29_ExceptionIsolated ==
    [][(j_wpc = "exec" /\ j_outcome' = "Exception") =>
          /\ j_wpc' = "recv"
          /\ jq' = jq
          /\ reply'[j_task.response] =
                IF reply[j_task.response] = "pending" THEN "Exception"
                ELSE reply[j_task.response]
          /\ \A id \in RequestIds :
                id # j_task.response => reply'[id] = reply[id]]_vars

C29_Witness ==
    /\ Len(j_log) = 2
    /\ reply[j_log[1].response] = "Exception"
    /\ reply[j_log[2].response] = "Ok"
    /\ j_wpc = "recv"

\* C30: a call whose function name is not in ALLOWED_JULIA_FUNCTIONS ends
\* FunctionNotAllowed and its task is never put into the channel; every
\* task in the channel, in the worker's hands or handed to the interpreter
\* before names an allowed function.
C30_Allowlist ==
    /\ \A k \in BridgeCallers :
          (jpc[k] # "idle" /\ j_fn[k] \notin ALLOWED_JULIA_FUNCTIONS) =>
             /\ jpc[k] = "done"
             /\ j_ret[k] = "FunctionNotAllowed"
             /\ j_id[k] \notin j_enqueued
    /\ \A i \in 1..Len(jq) :
          jq[i].function_name \in ALLOWED_JULIA_FUNCTIONS
    /\ \A i \in 1..Len(j_log) :
          j_log[i].function_name \in ALLOWED_JULIA_FUNCTIONS

C30_Witness ==
    /\ \E k \in BridgeCallers :
          /\ jpc[k] = "done" /\ j_fn[k] = "system"
          /\ j_ret[k] = "FunctionNotAllowed"
    /\ Len(j_log) = 1
    /\ j_log[1].function_name = "predict"

\* C31: at bridge initialisation a model file is included only if the
\* content the interpreter evaluated hashes to the allowlist's entry for its
\* path; a file that does not match is skipped and the worker thread still
\* reaches its main loop.
C31_IncludedOnlyIfAllowlisted ==
    /\ \A p \in ModelPaths :
          i_status[p] = "loaded"
              => script_allowlist_hashes[p] = Sha256(i_included[p])
    /\ (\E p \in ModelPaths : i_status[p] = "skipped") => ipc # "failed"

\* C32: a step of the reload loop that ends a Reload event in failure, in
\* Plugin::load or in instantiate, leaves the registry as it was and takes
\* the loop back to bus_rx.recv(), where a later event is processed.
C32_FailureKeepsRegistryAndLoop ==
    [][(/\ rpc \in {"load", "instantiate"}
        /\ rpc' \notin {rpc, "instantiate", "insert"})
          => (agents' = agents /\ rpc' = "recv")]_vars

\* C33: however initialize_admin calls follow or overlap each other, at
\* most one of them returns Ok, and a call made when an admin row exists
\* fails and leaves the users table as it was.
C33_OneAdminInit ==
    /\ [](admin_inits <= 1)
    /\ [](\A k \in UserCallers :
            (u_op[k] = "initialize_admin" /\ upc[k] = "done" /\ u_late[k])
                => u_ret[k] # "Ok")
    /\ [][\A k \in UserCallers :
            (u_op[k] = "initialize_admin" /\ u_late[k]
                /\ upc[k] # "done" /\ upc'[k] # upc[k])
                => users' = users]_vars

\* C40: an authenticate call made after disable_user has returned Ok for
\* its user does not return a token, whatever update_password calls run
\* beside the disable_user call.
C40_DisabledStaysDisabled ==
    [][\A k \in AuthCallers :
        (apc[k] # "done" /\ apc'[k] = "done" /\ a_late'[k])
            => a_ret'[k] # "Token"]_vars

\* the states in which a dispatch call awaits its handler or a send on the
\* reply channel
AwaitingOutside(t) ==
    pc[t] \in {"send_full", "send_unknown", "handle", "send_response"}
\* the search_memory call holds the guard of self.fragments.read()
ReadGuardHeld == spc = "rerank"

\* C35: a dispatch call does not hold the registry mutex while it awaits its
\* handler or a send on the reply channel, and search_memory does not hold
\* the fragments lock while it awaits the embedding or the rerank agent.
C35_NoLockAcrossAwait ==
    /\ \A t \in Tasks : AwaitingOutside(t) => agents_lock # t
    /\ spc \in {"embed", "rerank"} => ~ReadGuardHeld

\* C36: the step in which an authenticate call counts a failed attempt
\* raises the user's counter by exactly one and, if the counter has then
\* reached max_login_attempts, sets lockout_until in the same step, also
\* when another call for the same user is in progress; no state shows a
\* counter at the threshold without a lockout.
C36_AtomicCountAndLock ==
    /\ [][\A k \in AuthCallers :
            (apc[k] = "verify" /\ apc'[k] = "done"
                /\ a_ret'[k] = "Invalid credentials")
                => /\ login_attempts'[a_user[k]].count
                        = login_attempts[a_user[k]].count + 1
                   /\ login_attempts'[a_user[k]].count >= max_login_attempts
                        => login_attempts'[a_user[k]].until
                                = clock + lockout_duration]_vars
    /\ [](\A u \in Users :
            login_attempts[u].count >= max_login_attempts
                => login_attempts[u].until # NoLock)

C36_Witness ==
    \E j, k \in AuthCallers :
        /\ j # k
        /\ apc[j] = "done" /\ apc[k] = "done"
        /\ a_user[j] = "alice" /\ a_user[k] = "alice"
        /\ a_ret[j] = "Invalid credentials"
        /\ a_ret[k] = "Invalid credentials"
        /\ a_until[j] = Mixed
        /\ login_attempts["alice"].count = 2
        /\ login_attempts["alice"].until # NoLock

\* C39: the first failed attempt of a call made after a lockout has run out
\* does not lock the user out again, unless max_login_attempts is 1: the
\* failures counted before the lockout do not count towards the next one.
C39_NoCarryOver ==
    [][\A k \in AuthCallers :
        (/\ apc[k] = "verify" /\ apc'[k] = "done"
         /\ a_ret'[k] = "Invalid credentials"
         /\ a_until[k] = NoLock
         /\ login_attempts[a_user[k]].until # NoLock
         /\ login_attempts[a_user[k]].until <= clock)
            => (login_attempts'[a_user[k]].until > clock
                    => max_login_attempts = 1)]_vars

\* the current load call is one that is rejected for its extension, for the
\* file's size, or because signatures are required and the allowlist is
\* empty
RejectedUnhashed ==
    \/ ExtensionOf(lpath) \notin allowed_extensions
    \/ require_signatures /\ allowed_hashes = {}
    \/ lresult = "FileTooLarge"

\* C37: no step of a load call that is rejected for its extension, for the
\* file's size, or for an empty allowlist with signatures required moves a
\* file, puts one into quarantine or maps one, and such a call ends without
\* a mapped library.
C37_RejectedFileStays ==
    /\ [][((lpc' # lpc \/ loads' # loads) /\ RejectedUnhashed')
            => /\ fs' = fs /\ quarantine' = quarantine /\ mapped' = mapped
               /\ ~l_mapped']_vars
    /\ [](lresult \in {"InvalidExtension", "FileTooLarge", "AllowlistEmpty"}
            => lpc = "done" /\ ~l_mapped)

C37_Witness ==
    /\ lpc = "done"
    /\ lresult = "AllowlistEmpty"
    /\ fs[lpath] # NoFile
    /\ file_content = fs[lpath]
    /\ quarantine = {}
    /\ mapped = {}

\* C34: a configuration that requires plugin signatures and has an empty
\* allowlist never gets past the loading of the settings: the service is
\* not started and Plugin::load is never called
C34_EmptyAllowlistIsFatal ==
    (require_signatures /\ allowed_hashes = {})
        => (boot \in {"load", "fatal"} /\ loads = 0)

\* C38: a file that is in <dir>/quarantine is never moved out of it into a
\* deeper quarantine directory and is never mapped
C38_QuarantineIsFinal == q_deeper = {} /\ q_mapped = {}

====
